---- MODULE Spec2Model ----
(***************************************************************************)
(* Payment verification pipeline of RealFacilitator (signature gate,       *)
(* balance gate, modifier chain) and the AML risk engine behind the        *)
(* AMLModifier (sanctions oracle, local sanctions set, on-chain analysis). *)
(*                                                                         *)
(* An async function is modelled by one action per stretch of code between *)
(* two awaited external calls; the outcome of an external call (a value or *)
(* a fault) is chosen when the call returns.                               *)
(***************************************************************************)
EXTENDS Integers, Sequences, FiniteSets, TLC

\* ------------------------------------------------------------------ bounds
\* largest transaction count a getTransactionCount read may return
MaxTxCount == 70
\* largest token balance a balanceOf read may return
MaxBalance == 2
\* largest number of modifiers registered with one facilitator
MaxModifiers == 3
\* number of payments checked concurrently
MaxPayments == 2

\* ------------------------------------------------------- optional values
None == <<>>
Some(x) == <<x>>
\* an absent (undefined) string
Undefined == "undefined"

\* ------------------------------------------------------------- addresses
\* Three spellings of the address of key A (lower case, checksummed, mixed
\* case with a wrong checksum), two of key B, a text that is no address,
\* and the address a signature recovers to when the message is not the
\* signed one.
AddrA == "0xabc"
AddrAChecksum == "0xAbC"
AddrABadCase == "0xaBC"
AddrB == "0xdef"
AddrBChecksum == "0xDeF"
AddrOther == "0xEeE"
NotAnAddress == "not-an-address"

\* String.prototype.toLowerCase on the spellings above
ToLowerCase(a) ==
  CASE a \in {AddrA, AddrAChecksum, AddrABadCase} -> AddrA
    [] a \in {AddrB, AddrBChecksum} -> AddrB
    [] a = AddrOther -> "0xeee"
    [] OTHER -> a

\* a slip: the checksum of a mixed-case address is not verified
IsAddressAnyCase(a) ==
  a \in {AddrA, AddrAChecksum, AddrABadCase, AddrB, AddrBChecksum, AddrOther, "0xeee"}

\* ethers.isAddress: all-lower-case or correctly checksummed hex
IsAddress(a) == a \in {AddrA, AddrAChecksum, AddrB, AddrBChecksum, AddrOther, "0xeee"}

\* ---------------------------------------------------- modifier metadata
\* Record<string, any> restricted to the keys the code writes; an absent key
\* is None.
EmptyMetadata ==
  [aml |-> None, requiresManualReview |-> None, amlEnabled |-> None, custom |-> None]

MetadataKeys == {"aml", "requiresManualReview", "amlEnabled", "custom"}

\* { ...a, ...b }
Spread(a, b) == [k \in MetadataKeys |-> IF b[k] # None THEN b[k] ELSE a[k]]

NoReason == <<>>

\* ------------------------------------------------------------ AMLChecker
\* a slip: the wallet age of an address without transactions adds nothing
calculateRiskScoreNoAgeWhenUnused(sanctioned, onChainData) ==
  IF sanctioned THEN 100
  ELSE LET c == IF onChainData.isContract THEN 30 ELSE 0
           t == IF onChainData.transactionCount = 0 THEN 40
                ELSE IF onChainData.transactionCount < 10 THEN 25
                ELSE IF onChainData.transactionCount < 50 THEN 10 ELSE 0
           a == IF onChainData.transactionCount = 0 THEN 0
                ELSE IF onChainData.walletAge < 1 THEN 20
                ELSE IF onChainData.walletAge < 7 THEN 10 ELSE 0
           score == c + t + a
       IN  IF score < 100 THEN score ELSE 100

\* a slip: ten transactions still count as a very new wallet
calculateRiskScoreTenIsNew(sanctioned, onChainData) ==
  IF sanctioned THEN 100
  ELSE LET c == IF onChainData.isContract THEN 30 ELSE 0
           t == IF onChainData.transactionCount = 0 THEN 40
                ELSE IF onChainData.transactionCount <= 10 THEN 25
                ELSE IF onChainData.transactionCount < 50 THEN 10 ELSE 0
           a == IF onChainData.walletAge < 1 THEN 20
                ELSE IF onChainData.walletAge < 7 THEN 10 ELSE 0
           score == c + t + a
       IN  IF score < 100 THEN score ELSE 100

\* a slip: the additive score without the sanctioned short-circuit
calculateRiskScoreNoShortCircuit(sanctioned, onChainData) ==
  LET c == IF onChainData.isContract THEN 30 ELSE 0
      t == IF onChainData.transactionCount = 0 THEN 40
           ELSE IF onChainData.transactionCount < 10 THEN 25
           ELSE IF onChainData.transactionCount < 50 THEN 10 ELSE 0
      a == IF onChainData.walletAge < 1 THEN 20
           ELSE IF onChainData.walletAge < 7 THEN 10 ELSE 0
      score == c + t + a
  IN  IF score < 100 THEN score ELSE 100

\* calculateRiskScore
calculateRiskScore(sanctioned, onChainData) ==
  IF sanctioned THEN 100
  ELSE LET c == IF onChainData.isContract THEN 30 ELSE 0
           t == IF onChainData.transactionCount = 0 THEN 40
                ELSE IF onChainData.transactionCount < 10 THEN 25
                ELSE IF onChainData.transactionCount < 50 THEN 10 ELSE 0
           a == IF onChainData.walletAge < 1 THEN 20
                ELSE IF onChainData.walletAge < 7 THEN 10 ELSE 0
           score == c + t + a
       IN  IF score < 100 THEN score ELSE 100

\* a slip: the CRITICAL breakpoint excludes 90
getRiskLevelAbove(score) ==
  IF score > 90 THEN "CRITICAL"
  ELSE IF score >= 70 THEN "HIGH"
  ELSE IF score >= 40 THEN "MEDIUM"
  ELSE "LOW"

getRiskLevel(score) ==
  IF score >= 90 THEN "CRITICAL"
  ELSE IF score >= 70 THEN "HIGH"
  ELSE IF score >= 40 THEN "MEDIUM"
  ELSE "LOW"

\* a slip: the catch returns the zero values without the flag
AnalysisFailedUnflagged ==
  [walletAge |-> 0, transactionCount |-> 0, isContract |-> FALSE, riskFactors |-> <<>>]

\* the catch of analyzeOnChainBehavior
AnalysisFailed ==
  [walletAge |-> 0, transactionCount |-> 0, isContract |-> FALSE,
   riskFactors |-> <<"Analysis failed">>]

\* a slip: the result of a sanctioned address leaves the on-chain data out
AMLCheckResultSanctionOnly(address, sanctioned, onChainData) ==
  LET riskScore == calculateRiskScore(sanctioned, onChainData)
      reported == IF sanctioned THEN AnalysisFailedUnflagged ELSE onChainData
  IN  [address |-> address,
       riskScore |-> riskScore,
       riskLevel |-> getRiskLevel(riskScore),
       flags |-> (IF sanctioned THEN <<"SANCTIONED">> ELSE <<>>) \o reported.riskFactors,
       sanctioned |-> sanctioned,
       metadata |-> [walletAge |-> reported.walletAge,
                     transactionCount |-> reported.transactionCount,
                     isContract |-> reported.isContract,
                     hasTokens |-> reported.transactionCount > 0]]

\* checkAddress from the flags on: the AMLCheckResult built from the sanction
\* verdict and the on-chain data
AMLCheckResult(address, sanctioned, onChainData) ==
  LET riskScore == calculateRiskScore(sanctioned, onChainData)
  IN  [address |-> address,
       riskScore |-> riskScore,
       riskLevel |-> getRiskLevel(riskScore),
       flags |-> (IF sanctioned THEN <<"SANCTIONED">> ELSE <<>>) \o onChainData.riskFactors,
       sanctioned |-> sanctioned,
       metadata |-> [walletAge |-> onChainData.walletAge,
                     transactionCount |-> onChainData.transactionCount,
                     isContract |-> onChainData.isContract,
                     hasTokens |-> onChainData.transactionCount > 0]]

\* a slip: a score equal to the threshold passes
isAddressAllowedLe(result, riskThreshold) ==
  result.riskScore <= riskThreshold /\ ~result.sanctioned

\* isAddressAllowed after checkAddress returned
isAddressAllowed(result, riskThreshold) ==
  result.riskScore < riskThreshold /\ ~result.sanctioned

\* ----------------------------------------------------------- AMLModifier
AMLPriority == 10
AMLName == "AMLModifier"

\* the metadata.aml object of a completed check
AmlData(result) ==
  [checked |-> TRUE,
   address |-> result.address,
   riskScore |-> result.riskScore,
   riskLevel |-> result.riskLevel,
   sanctioned |-> result.sanctioned,
   flags |-> result.flags,
   walletAge |-> result.metadata.walletAge,
   transactionCount |-> result.metadata.transactionCount]

AmlMetadata(result) == [EmptyMetadata EXCEPT !.aml = Some(AmlData(result))]

\* a slip: the review branch taken for the tier CRITICAL as well
executeVerdictReviewsCritical(cfg, allowed, result) ==
  IF result.sanctioned
  THEN [allowed |-> FALSE,
        reason |-> <<"SANCTIONED address">>,
        metadata |-> AmlMetadata(result)]
  ELSE IF ~allowed
  THEN IF cfg.requireManualReview /\ result.riskLevel \in {"HIGH", "CRITICAL"}
       THEN [allowed |-> TRUE,
             reason |-> <<"HIGH RISK - Requires manual review">>,
             metadata |-> [AmlMetadata(result) EXCEPT !.requiresManualReview = Some(TRUE)]]
       ELSE [allowed |-> FALSE,
             reason |-> <<"Risk score too high", result.riskScore, cfg.riskThreshold>>,
             metadata |-> AmlMetadata(result)]
  ELSE [allowed |-> TRUE, reason |-> NoReason, metadata |-> AmlMetadata(result)]

\* a slip: the review branch taken for every payer that is not plainly
\* allowed, sanctioned ones included
executeVerdictNoSanctionBranch(cfg, allowed, result) ==
  IF ~allowed
  THEN IF cfg.requireManualReview
       THEN [allowed |-> TRUE,
             reason |-> <<"HIGH RISK - Requires manual review">>,
             metadata |-> [AmlMetadata(result) EXCEPT !.requiresManualReview = Some(TRUE)]]
       ELSE [allowed |-> FALSE,
             reason |-> <<"Risk score too high", result.riskScore, cfg.riskThreshold>>,
             metadata |-> AmlMetadata(result)]
  ELSE [allowed |-> TRUE, reason |-> NoReason, metadata |-> AmlMetadata(result)]

\* a slip: a score at or above the threshold is logged and let through
executeVerdictThresholdLogged(cfg, allowed, result) ==
  IF result.sanctioned
  THEN [allowed |-> FALSE,
        reason |-> <<"SANCTIONED address">>,
        metadata |-> AmlMetadata(result)]
  ELSE [allowed |-> TRUE, reason |-> NoReason, metadata |-> AmlMetadata(result)]

\* execute after isAddressAllowed returned: the ModifierResult
executeVerdict(cfg, allowed, result) ==
  IF result.sanctioned
  THEN [allowed |-> FALSE,
        reason |-> <<"SANCTIONED address">>,
        metadata |-> AmlMetadata(result)]
  ELSE IF ~allowed
  THEN IF cfg.requireManualReview /\ result.riskLevel = "HIGH"
       THEN [allowed |-> TRUE,
             reason |-> <<"HIGH RISK - Requires manual review">>,
             metadata |-> [AmlMetadata(result) EXCEPT !.requiresManualReview = Some(TRUE)]]
       ELSE [allowed |-> FALSE,
             reason |-> <<"Risk score too high", result.riskScore, cfg.riskThreshold>>,
             metadata |-> AmlMetadata(result)]
  ELSE [allowed |-> TRUE, reason |-> NoReason, metadata |-> AmlMetadata(result)]

\* a slip: the catch lets the payment pass
executeCatchFailOpen(error) ==
  [allowed |-> TRUE,
   reason |-> <<"AML check error">>,
   metadata |-> [EmptyMetadata EXCEPT !.aml = Some([checked |-> FALSE, error |-> error])]]

\* the catch of execute
executeCatch(error) ==
  [allowed |-> FALSE,
   reason |-> <<"AML check error">>,
   metadata |-> [EmptyMetadata EXCEPT !.aml = Some([checked |-> FALSE, error |-> error])]]

executeDisabled ==
  [allowed |-> TRUE, reason |-> NoReason,
   metadata |-> [EmptyMetadata EXCEPT !.amlEnabled = Some(FALSE)]]

executeNoPayer ==
  [allowed |-> FALSE,
   reason |-> <<"Cannot perform AML check: payer address not found">>,
   metadata |-> EmptyMetadata]

\* ------------------------------------------------------ payment inputs
Network == "base-sepolia"
Asset == "0xUSDC"
PayTo == "0xMerchant"

\* the message template of verify (and of the signing client)
CanonicalMessage(network, asset, user, receiver, amount) ==
  <<"Chain ID:", network, "Contract:", asset, "User:", user,
    "Receiver:", receiver, "Amount:", amount>>

CustomMessage == <<"custom message">>
NoMessage == <<>>

\* decimal strings and one text BigInt() rejects
NotANumber == "abc"
IsNumeric(s) == s \in {"0", "1", "2", "3", "4"}
BigInt(s) == CASE s = "0" -> 0 [] s = "1" -> 1 [] s = "2" -> 2 [] s = "3" -> 3 [] s = "4" -> 4

\* signatures: who signed which message; none; or bytes verifyMessage rejects
NoSignature == [signer |-> "none", message |-> NoMessage]
MalformedSignature == [signer |-> "malformed", message |-> NoMessage]
KeyAddress(k) == IF k = "A" THEN AddrAChecksum ELSE AddrBChecksum

\* ethers.verifyMessage on a well-formed signature: the signer's checksummed
\* address when the message is the signed one, an unrelated address otherwise
verifyMessage(message, signature) ==
  IF signature.message = message THEN KeyAddress(signature.signer) ELSE AddrOther

\* the messages a client signs: the canonical message with the payer spelled
\* in lower case or checksummed, with the required or another amount, and a
\* message of the client's own
SignedMessages ==
  {CanonicalMessage(Network, Asset, AddrA, PayTo, a) : a \in {"1", "2", NotANumber}}
    \cup {CanonicalMessage(Network, Asset, AddrAChecksum, PayTo, "2"), CustomMessage}

Signatures ==
  {NoSignature, MalformedSignature}
    \cup {[signer |-> "A", message |-> m] : m \in SignedMessages}
    \cup {[signer |-> "B", message |-> m] :
            m \in {CanonicalMessage(Network, Asset, AddrA, PayTo, "2"), CustomMessage}}

Froms == {Undefined, AddrA, AddrAChecksum, AddrABadCase, AddrB}

NoPayload ==
  [hasAuthorization |-> FALSE, from |-> Undefined, signature |-> NoSignature,
   extraMessage |-> NoMessage, network |-> Network]

Payloads ==
  {NoPayload} \cup
  {[hasAuthorization |-> TRUE, from |-> f, signature |-> s, extraMessage |-> e, network |-> Network] :
     f \in Froms, s \in Signatures, e \in {NoMessage, CustomMessage}}

NoRequirements ==
  [network |-> Network, asset |-> Asset, payTo |-> PayTo, maxAmountRequired |-> "0"]

Requirements ==
  {[network |-> Network, asset |-> Asset, payTo |-> PayTo, maxAmountRequired |-> a] :
     a \in {"2", NotANumber}}

\* ------------------------------------------------------------- modifiers
CustomModifiers ==
  {[name |-> "EarlyModifier", priority |-> 5], [name |-> "LateModifier", priority |-> 20]}

AMLModifier == [name |-> AMLName, priority |-> AMLPriority]

ModifierPool == CustomModifiers \cup {AMLModifier}

\* the orders in which up to MaxModifiers distinct modifiers can be registered
Registrations ==
  {r \in UNION {[1..k -> ModifierPool] : k \in 0..MaxModifiers} :
     \A i, j \in DOMAIN r : i # j => r[i] # r[j]}

\* a stable insertion of m behind every element whose priority is not larger
RECURSIVE InsertByPriority(_, _)
InsertByPriority(sorted, m) ==
  IF sorted = <<>> THEN <<m>>
  ELSE IF sorted[Len(sorted)].priority - m.priority <= 0 THEN Append(sorted, m)
  ELSE Append(InsertByPriority(SubSeq(sorted, 1, Len(sorted) - 1), m), sorted[Len(sorted)])

\* a slip: the list is left in registration order
SortUnsorted(list) == list

\* this.modifiers.sort((a, b) => a.priority - b.priority)
RECURSIVE SortByPriority(_)
SortByPriority(list) ==
  IF list = <<>> THEN <<>>
  ELSE InsertByPriority(SortByPriority(SubSeq(list, 1, Len(list) - 1)), list[Len(list)])

\* what an execute of a modifier other than the AMLModifier may return
CustomResults ==
  {[allowed |-> TRUE, reason |-> NoReason, metadata |-> EmptyMetadata],
   [allowed |-> TRUE, reason |-> NoReason,
    metadata |-> [EmptyMetadata EXCEPT !.custom = Some(TRUE)]],
   [allowed |-> FALSE, reason |-> NoReason, metadata |-> EmptyMetadata],
   [allowed |-> FALSE, reason |-> <<"custom rejection">>, metadata |-> EmptyMetadata]}

CustomFault == <<"custom modifier failed">>

\* --------------------------------------------------------- configuration
RiskThresholds == {0, 60, 70, 75, 100}

DefaultAMLConfig ==
  [enabled |-> TRUE, riskThreshold |-> 70, requireManualReview |-> FALSE,
   useOracle |-> TRUE, fallbackToLocal |-> TRUE]

\* The policies an AMLModifier is constructed with. Options that the code
\* never reads under a policy are left at their defaults: everything but
\* enabled when the modifier is disabled, fallbackToLocal without an oracle.
AMLConfigs ==
  {c \in [enabled : BOOLEAN, riskThreshold : RiskThresholds, requireManualReview : BOOLEAN,
          useOracle : BOOLEAN, fallbackToLocal : BOOLEAN] :
     /\ ~c.enabled => c = [DefaultAMLConfig EXCEPT !.enabled = FALSE]
     /\ ~c.useOracle => c.fallbackToLocal}

TxCounts == {0, 5, 10, 50, MaxTxCount}

\* ------------------------------------------------------------------ state
VARIABLES
  modifiers,            \* RealFacilitator.modifiers, sorted by the constructor
  config,               \* AMLModifier.config together with the AMLCheckerConfig
  sanctionedAddresses,  \* AMLChecker.sanctionedAddresses
  pc,                   \* the await the running call is suspended at
  caller,               \* who called execute: verify, or a direct caller
  payload,              \* arguments of the running verify
  requirements,
  payer,                \* verify's local payer
  balance,              \* verify's local balance, once balanceOf answered
  idx,                  \* position of the modifier loop of verify
  metadata,             \* modifierContext.metadata
  amlCheckData,         \* verify's local amlCheckData
  response,             \* the VerifyResponse returned by verify
  address,              \* the address under check in the AMLChecker
  sanctioned,           \* checkAddress's local sanctioned
  isContract,           \* analyzeOnChainBehavior's locals
  transactionCount,
  assessment,           \* the AMLCheckResult returned by checkAddress
  caught,               \* the error caught by the catch of execute
  verdict,              \* the ModifierResult returned by the running execute
  thrown,               \* the error the running execute threw
  log,                  \* the calls, faults and modifier runs of the running call
  applied,              \* the last direct application of a scoring function
  checks,               \* the checkAddress calls of concurrent payments
  confirmed,            \* the addresses the oracle answered sanctioned for
  seed,                 \* the set loadSanctionsList loaded
  merchantAccount,      \* RealFacilitator.merchantAccount is set
  transfers,            \* the transferFrom calls submitted by the running settle
  tx,                   \* settle's local tx, once transferFrom answered
  receipt,              \* settle's local receipt, once tx.wait answered
  settled,              \* the SettleResponse returned by settle
  verified,             \* the payments verify returned isValid=true for
  chain,                \* what the chain answers to each read while it does not change
  first,                \* the first verify that returned, with its result
  startCache            \* the sanctions cache when the running verify was called

\* the state of settlement
settleVars == <<merchantAccount, transfers, tx, receipt, settled, verified>>

\* the record of returned verify calls
historyVars == <<chain, first, startCache>>

\* what no step of a verify or of an execute changes
cfgVars == <<modifiers, config, applied, checks, confirmed, seed, settleVars, historyVars>>
callVars == <<caller, payload, requirements, payer, balance>>
loopVars == <<idx, metadata, amlCheckData>>
checkVars == <<address, sanctioned, isContract, transactionCount, assessment, caught>>
vars == <<modifiers, config, sanctionedAddresses, pc, caller, payload, requirements,
          payer, balance, idx, metadata, amlCheckData, response, address, sanctioned,
          isContract, transactionCount, assessment, caught, verdict, thrown, log, applied,
          checks, confirmed, seed, settleVars, historyVars>>

\* the payments whose checks run concurrently on one AMLChecker
Payments == 1..MaxPayments

\* a payment whose check has not been called
NoCheck ==
  [pc |-> "idle", address |-> Undefined, sanctioned |-> FALSE, isContract |-> FALSE,
   transactionCount |-> 0, result |-> None, thrown |-> None]

\* no verify is recorded and the chain's answers are not fixed
NoHistory ==
  /\ chain = None
  /\ first = None
  /\ startCache = {}

\* no settle is running and none has run; verify reads none of these
NoSettle ==
  /\ merchantAccount = FALSE
  /\ transfers = <<>>
  /\ tx = None
  /\ receipt = None
  /\ settled = None
  /\ verified = {}
  /\ NoHistory

\* this.oracleContract is set by initializeOracle when useOracle is set
oracleContract == config.useOracle

HasAML == \E i \in DOMAIN modifiers : modifiers[i].name = AMLName

\* The facilitator after construction. The compliance policy varies freely
\* when the AMLModifier is the only modifier; chains with other modifiers
\* run the default policy with either review setting.
Init ==
  /\ \E r \in Registrations : modifiers = SortByPriority(r)
  /\ config \in AMLConfigs
  /\ \/ modifiers = <<AMLModifier>>
     \/ config \in {[DefaultAMLConfig EXCEPT !.requireManualReview = b] : b \in BOOLEAN}
  /\ sanctionedAddresses \in {{}, {AddrB}}
  /\ pc = "idle"
  /\ caller = "none"
  /\ payload = NoPayload
  /\ requirements = NoRequirements
  /\ payer = Undefined
  /\ balance = None
  /\ idx = 0
  /\ metadata = EmptyMetadata
  /\ amlCheckData = None
  /\ response = None
  /\ address = Undefined
  /\ sanctioned = FALSE
  /\ isContract = FALSE
  /\ transactionCount = 0
  /\ assessment = None
  /\ caught = None
  /\ verdict = None
  /\ thrown = None
  /\ log = <<>>
  /\ applied = None
  /\ checks = [p \in Payments |-> NoCheck]
  /\ confirmed = {}
  /\ seed = sanctionedAddresses
  /\ NoSettle

\* ------------------------------------------------- AMLModifier / AMLChecker
\* execute returns result r
ExecuteReturns(r, lg) ==
  /\ verdict' = Some(r)
  /\ thrown' = None
  /\ pc' = "verdict"
  /\ log' = Append(lg, <<"end", AMLName>>)

\* checkAddress once the on-chain data is complete, isAddressAllowed and the
\* rest of execute
FinishCheck(onChainData, lg) ==
  LET result == AMLCheckResult(address, sanctioned, onChainData)
      allowed == isAddressAllowed(result, config.riskThreshold)
  IN  /\ assessment' = Some(result)
      /\ ExecuteReturns(executeVerdict(config, allowed, result), lg)

\* execute from its first line to its first external call, for context.payer p
AMLExecuteStart(p, lg) ==
  LET started == Append(lg, <<"start", AMLName>>)
  IN  /\ address' = p
      /\ isContract' = FALSE
      /\ transactionCount' = 0
      /\ assessment' = None
      /\ UNCHANGED sanctionedAddresses
      /\ IF ~config.enabled
         THEN /\ ExecuteReturns(executeDisabled, started)
              /\ sanctioned' = FALSE /\ caught' = None
         ELSE IF p = Undefined
         THEN /\ ExecuteReturns(executeNoPayer, started)
              /\ sanctioned' = FALSE /\ caught' = None
         ELSE IF ~IsAddress(p)
         THEN /\ ExecuteReturns(executeCatch(<<"Invalid Ethereum address:", p>>), started)
              /\ caught' = Some(<<"Invalid Ethereum address:", p>>)
              /\ sanctioned' = FALSE
         ELSE IF oracleContract
         THEN /\ pc' = "isSanctioned"
              /\ log' = Append(started, <<"call", "isSanctioned">>)
              /\ sanctioned' = FALSE /\ caught' = None
              /\ verdict' = None /\ thrown' = None
         ELSE /\ sanctioned' = (ToLowerCase(p) \in sanctionedAddresses)
              /\ pc' = "getCode"
              /\ log' = Append(started, <<"call", "getCode">>)
              /\ caught' = None
              /\ verdict' = None /\ thrown' = None

\* a slip: the set is replaced by the new element
SetAddReplaces(set, value) == {value}

\* Set.prototype.add
SetAdd(set, value) == set \cup {value}

\* a slip: the answer of the oracle is returned as it is
SanctionVerdictOracleOnly(oracleSanctioned, isLocalSanctioned) == oracleSanctioned

\* the last line of isSanctioned
SanctionVerdict(oracleSanctioned, isLocalSanctioned) == oracleSanctioned \/ isLocalSanctioned

\* a slip: the checked address is cached whatever the oracle answered
IsSanctionedReturnCachesEveryAnswer(oracleSanctioned) ==
  /\ pc = "isSanctioned"
  /\ sanctionedAddresses' = SetAdd(sanctionedAddresses, ToLowerCase(address))
  /\ sanctioned' = SanctionVerdict(oracleSanctioned,
                                   ToLowerCase(address) \in sanctionedAddresses)
  /\ pc' = "getCode"
  /\ log' = log \o << <<"answer", IF oracleSanctioned THEN "true" ELSE "false">>,
                      <<"call", "getCode">> >>
  /\ UNCHANGED <<address, isContract, transactionCount, assessment, caught, verdict, thrown>>
  /\ UNCHANGED <<cfgVars, callVars, loopVars, response>>

\* oracleContract.isSanctioned(address) answered
IsSanctionedReturn(oracleSanctioned) ==
  /\ pc = "isSanctioned"
  /\ IF oracleSanctioned
     THEN /\ sanctionedAddresses' = SetAdd(sanctionedAddresses, ToLowerCase(address))
          /\ sanctioned' = TRUE
     ELSE /\ UNCHANGED sanctionedAddresses
          /\ sanctioned' = SanctionVerdict(oracleSanctioned,
                                           ToLowerCase(address) \in sanctionedAddresses)
  /\ pc' = "getCode"
  /\ log' = log \o << <<"answer", IF oracleSanctioned THEN "true" ELSE "false">>,
                      <<"call", "getCode">> >>
  /\ UNCHANGED <<address, isContract, transactionCount, assessment, caught, verdict, thrown>>
  /\ UNCHANGED <<cfgVars, callVars, loopVars, response>>

\* a slip: the fault of the oracle is rethrown whatever fallbackToLocal is
IsSanctionedFaultRethrown ==
  /\ pc = "isSanctioned"
  /\ UNCHANGED sanctionedAddresses
  /\ caught' = Some(<<"oracle call failed">>)
  /\ ExecuteReturns(executeCatch(<<"oracle call failed">>),
                    Append(log, <<"fault", "isSanctioned">>))
  /\ UNCHANGED <<address, sanctioned, isContract, transactionCount, assessment>>
  /\ UNCHANGED <<cfgVars, callVars, loopVars, response>>

\* oracleContract.isSanctioned(address) faulted
IsSanctionedFault ==
  /\ pc = "isSanctioned"
  /\ UNCHANGED sanctionedAddresses
  /\ IF ~config.fallbackToLocal
     THEN /\ caught' = Some(<<"oracle call failed">>)
          /\ ExecuteReturns(executeCatch(<<"oracle call failed">>),
                            Append(log, <<"fault", "isSanctioned">>))
          /\ UNCHANGED sanctioned
     ELSE /\ sanctioned' = SanctionVerdict(FALSE, ToLowerCase(address) \in sanctionedAddresses)
          /\ pc' = "getCode"
          /\ log' = log \o << <<"fault", "isSanctioned">>, <<"call", "getCode">> >>
          /\ UNCHANGED <<caught, verdict, thrown>>
  /\ UNCHANGED <<address, isContract, transactionCount, assessment>>
  /\ UNCHANGED <<cfgVars, callVars, loopVars, response>>

\* provider.getCode(address) answered
GetCodeReturn(code) ==
  /\ pc = "getCode"
  /\ isContract' = (code # "0x")
  /\ pc' = "getTransactionCount"
  /\ log' = Append(log, <<"call", "getTransactionCount">>)
  /\ UNCHANGED <<address, sanctioned, transactionCount, assessment, caught, verdict, thrown>>
  /\ UNCHANGED <<cfgVars, callVars, loopVars, response, sanctionedAddresses>>

\* provider.getCode(address) faulted
GetCodeFault ==
  /\ pc = "getCode"
  /\ FinishCheck(AnalysisFailed, Append(log, <<"fault", "getCode">>))
  /\ UNCHANGED <<address, sanctioned, isContract, transactionCount, caught>>
  /\ UNCHANGED <<cfgVars, callVars, loopVars, response, sanctionedAddresses>>

\* a slip: a contract is not flagged
ContractFactorUnflagged == <<>>

\* riskFactors after the code read
ContractFactor == IF isContract THEN <<"Contract address">> ELSE <<>>

\* provider.getTransactionCount(address) answered
GetTransactionCountReturn(n) ==
  /\ pc = "getTransactionCount"
  /\ transactionCount' = n
  /\ IF n > 0
     THEN /\ pc' = "getBalance"
          /\ log' = Append(log, <<"call", "getBalance">>)
          /\ UNCHANGED <<assessment, verdict, thrown>>
     ELSE FinishCheck([walletAge |-> 0, transactionCount |-> n, isContract |-> isContract,
                       riskFactors |-> ContractFactor \o <<"No transactions">>], log)
  /\ UNCHANGED <<address, sanctioned, isContract, caught>>
  /\ UNCHANGED <<cfgVars, callVars, loopVars, response, sanctionedAddresses>>

\* provider.getTransactionCount(address) faulted
GetTransactionCountFault ==
  /\ pc = "getTransactionCount"
  /\ FinishCheck(AnalysisFailed, Append(log, <<"fault", "getTransactionCount">>))
  /\ UNCHANGED <<address, sanctioned, isContract, transactionCount, caught>>
  /\ UNCHANGED <<cfgVars, callVars, loopVars, response, sanctionedAddresses>>

\* a slip: the wallet age is the transaction count itself
GetBalanceReturnAgeIsCount(wei) ==
  /\ pc = "getBalance"
  /\ FinishCheck([walletAge |-> transactionCount,
                  transactionCount |-> transactionCount,
                  isContract |-> isContract,
                  riskFactors |-> ContractFactor
                                    \o (IF transactionCount < 10 THEN <<"New wallet">> ELSE <<>>)
                                    \o (IF wei = 0 THEN <<"Zero balance">> ELSE <<>>)],
                 log)
  /\ UNCHANGED <<address, sanctioned, isContract, transactionCount, caught>>
  /\ UNCHANGED <<cfgVars, callVars, loopVars, response, sanctionedAddresses>>

\* provider.getBalance(address) answered
GetBalanceReturn(wei) ==
  /\ pc = "getBalance"
  /\ FinishCheck([walletAge |-> transactionCount \div 10,
                  transactionCount |-> transactionCount,
                  isContract |-> isContract,
                  riskFactors |-> ContractFactor
                                    \o (IF transactionCount < 10 THEN <<"New wallet">> ELSE <<>>)
                                    \o (IF wei = 0 THEN <<"Zero balance">> ELSE <<>>)],
                 log)
  /\ UNCHANGED <<address, sanctioned, isContract, transactionCount, caught>>
  /\ UNCHANGED <<cfgVars, callVars, loopVars, response, sanctionedAddresses>>

\* a slip: the fault of the balance read reaches the outer catch
GetBalanceFaultFlagged ==
  /\ pc = "getBalance"
  /\ FinishCheck(AnalysisFailed, Append(log, <<"fault", "getBalance">>))
  /\ UNCHANGED <<address, sanctioned, isContract, transactionCount, caught>>
  /\ UNCHANGED <<cfgVars, callVars, loopVars, response, sanctionedAddresses>>

\* provider.getBalance(address) faulted: the inner catch leaves walletAge 0
GetBalanceFault ==
  /\ pc = "getBalance"
  /\ FinishCheck([walletAge |-> 0,
                  transactionCount |-> transactionCount,
                  isContract |-> isContract,
                  riskFactors |-> ContractFactor],
                 Append(log, <<"fault", "getBalance">>))
  /\ UNCHANGED <<address, sanctioned, isContract, transactionCount, caught>>
  /\ UNCHANGED <<cfgVars, callVars, loopVars, response, sanctionedAddresses>>

\* ------------------------------------------------------- RealFacilitator
VerifyResponse(isValid, invalidReason, p, amlCheck) ==
  [isValid |-> isValid, invalidReason |-> invalidReason, payer |-> p, amlCheck |-> amlCheck]

\* a slip: the catch answers like the gates do, with the payer
VerifyCatchKeepsPayer(error) == VerifyResponse(FALSE, error, payer, None)

\* a slip: the catch answers with a fixed text
VerifyCatchGeneric(error) == VerifyResponse(FALSE, <<"Verification failed">>, Undefined, None)

\* the catch of verify
VerifyCatch(error) == VerifyResponse(FALSE, error, Undefined, None)

\* error.message of the faults that reach the catch of verify
FaultMessage(source, rq) ==
  CASE source = "verifyMessage" -> <<"invalid signature bytes">>
    [] source = "balanceOf" -> <<"balanceOf call failed">>
    [] source = "BigInt" -> <<"Cannot convert to a BigInt:", rq.maxAmountRequired>>
    [] OTHER -> CustomFault

\* a slip: the recovered address is not compared with the payer
SignatureMismatchUnchecked(recoveredAddress, p) == FALSE

\* a slip: the addresses are compared as they are spelled
SignatureMismatchExact(recoveredAddress, p) == recoveredAddress # p

\* recoveredAddress.toLowerCase() !== payer.toLowerCase()
SignatureMismatch(recoveredAddress, p) == ToLowerCase(recoveredAddress) # ToLowerCase(p)

\* a slip: the comparison turned round
InsufficientBalanceInverted(b, requiredAmount) == b > requiredAmount

\* a slip: a balance equal to the required amount is refused
InsufficientBalanceOrEqual(b, requiredAmount) == b <= requiredAmount

\* balance < requiredAmount
InsufficientBalance(b, requiredAmount) == b < requiredAmount

\* a slip: the rejection leaves amlCheck out
DenialResponseNoAml(result, name, p, amlData) ==
  [isValid |-> FALSE,
   invalidReason |-> IF result.reason # NoReason THEN result.reason ELSE <<"Rejected by", name>>,
   payer |-> p, amlCheck |-> None]

\* the response of verify to a verdict with allowed=false of the modifier
\* called name
DenialResponse(result, name, p, amlData) ==
  VerifyResponse(FALSE,
                 IF result.reason # NoReason THEN result.reason ELSE <<"Rejected by", name>>,
                 p, amlData)

\* verify returns r
VerifyReturns(r) ==
  /\ response' = Some(r)
  /\ pc' = "done"

\* The modifier loop of verify at position i: past the last modifier verify
\* returns isValid=true, otherwise modifiers[i].execute(modifierContext) is
\* called and runs to its first await.
EnterLoop(i, p, amlData, lg) ==
  /\ idx' = i
  /\ amlCheckData' = amlData
  /\ IF i > Len(modifiers)
     THEN /\ VerifyReturns(VerifyResponse(TRUE, NoReason, p, amlData))
          /\ log' = lg
          /\ verdict' = None /\ thrown' = None
          /\ UNCHANGED <<checkVars, sanctionedAddresses>>
     ELSE IF modifiers[i].name = AMLName
     THEN /\ AMLExecuteStart(p, lg)
          /\ response' = None
     ELSE /\ pc' = "execute"
          /\ log' = Append(lg, <<"start", modifiers[i].name>>)
          /\ verdict' = None /\ thrown' = None
          /\ response' = None
          /\ UNCHANGED <<checkVars, sanctionedAddresses>>

\* a slip: an authorization whose validBefore has passed is refused
VerifyWithinWindow(pl, rq) ==
  /\ pc = "idle"
  /\ caller' = "verify"
  /\ payload' = pl
  /\ requirements' = rq
  /\ LET p == IF pl.hasAuthorization THEN pl.from ELSE Undefined
         signature == IF pl.hasAuthorization THEN pl.signature ELSE NoSignature
         extra == IF pl.hasAuthorization THEN pl.extraMessage ELSE NoMessage
         messageToVerify ==
           IF extra # NoMessage THEN extra
           ELSE CanonicalMessage(pl.network, rq.asset, p, rq.payTo, rq.maxAmountRequired)
         recoveredAddress == verifyMessage(messageToVerify, signature)
     IN  /\ payer' = p
         /\ balance' = None
         /\ IF "validBefore" \in DOMAIN pl /\ pl.validBefore = 0
            THEN /\ VerifyReturns(VerifyResponse(FALSE, <<"Authorization expired">>, p, None))
                 /\ log' = <<>>
            ELSE IF p = Undefined \/ signature = NoSignature
            THEN /\ VerifyReturns(VerifyResponse(FALSE, <<"Missing payer address or signature">>, p, None))
                 /\ log' = <<>>
            ELSE IF signature = MalformedSignature
            THEN /\ VerifyReturns(VerifyCatch(FaultMessage("verifyMessage", rq)))
                 /\ log' = << <<"fault", "verifyMessage">> >>
            ELSE IF SignatureMismatch(recoveredAddress, p)
            THEN /\ VerifyReturns(VerifyResponse(FALSE,
                        <<"Signature verification failed. Expected", p, "got", recoveredAddress>>,
                        p, None))
                 /\ log' = <<>>
            ELSE /\ pc' = "balanceOf"
                 /\ response' = None
                 /\ log' = << <<"call", "balanceOf">> >>
  /\ UNCHANGED <<cfgVars, loopVars, checkVars, sanctionedAddresses, verdict, thrown>>

\* verify from its first line to the balanceOf call
Verify(pl, rq) ==
  /\ pc = "idle"
  /\ caller' = "verify"
  /\ payload' = pl
  /\ requirements' = rq
  /\ LET p == IF pl.hasAuthorization THEN pl.from ELSE Undefined
         signature == IF pl.hasAuthorization THEN pl.signature ELSE NoSignature
         extra == IF pl.hasAuthorization THEN pl.extraMessage ELSE NoMessage
         messageToVerify ==
           IF extra # NoMessage THEN extra
           ELSE CanonicalMessage(pl.network, rq.asset, p, rq.payTo, rq.maxAmountRequired)
         recoveredAddress == verifyMessage(messageToVerify, signature)
     IN  /\ payer' = p
         /\ balance' = None
         /\ IF p = Undefined \/ signature = NoSignature
            THEN /\ VerifyReturns(VerifyResponse(FALSE, <<"Missing payer address or signature">>, p, None))
                 /\ log' = <<>>
            ELSE IF signature = MalformedSignature
            THEN /\ VerifyReturns(VerifyCatch(FaultMessage("verifyMessage", rq)))
                 /\ log' = << <<"fault", "verifyMessage">> >>
            ELSE IF SignatureMismatch(recoveredAddress, p)
            THEN /\ VerifyReturns(VerifyResponse(FALSE,
                        <<"Signature verification failed. Expected", p, "got", recoveredAddress>>,
                        p, None))
                 /\ log' = <<>>
            ELSE /\ pc' = "balanceOf"
                 /\ response' = None
                 /\ log' = << <<"call", "balanceOf">> >>
  /\ UNCHANGED <<cfgVars, loopVars, checkVars, sanctionedAddresses, verdict, thrown>>

\* tokenContract.balanceOf(payer) answered: the balance gate and the start
\* of the modifier pipeline
BalanceOfReturn(b) ==
  /\ pc = "balanceOf"
  /\ balance' = Some(b)
  /\ metadata' = EmptyMetadata
  /\ IF ~IsNumeric(requirements.maxAmountRequired)
     THEN /\ VerifyReturns(VerifyCatch(FaultMessage("BigInt", requirements)))
          /\ log' = Append(log, <<"fault", "BigInt">>)
          /\ UNCHANGED <<idx, amlCheckData, checkVars, sanctionedAddresses, verdict, thrown>>
     ELSE IF InsufficientBalance(b, BigInt(requirements.maxAmountRequired))
     THEN /\ VerifyReturns(VerifyResponse(FALSE, <<"Insufficient balance">>, payer, None))
          /\ UNCHANGED <<log, idx, amlCheckData, checkVars, sanctionedAddresses, verdict, thrown>>
     ELSE EnterLoop(1, payer, None, log)
  /\ UNCHANGED <<cfgVars, caller, payload, requirements, payer>>

\* a slip: the balance read is issued once more after its first fault
BalanceOfFaultRetried ==
  /\ pc = "balanceOf"
  /\ IF \E i \in DOMAIN log : log[i] = <<"fault", "balanceOf">>
     THEN VerifyReturns(VerifyCatch(FaultMessage("balanceOf", requirements)))
     ELSE UNCHANGED <<pc, response>>
  /\ log' = log \o << <<"fault", "balanceOf">>, <<"call", "balanceOf">> >>
  /\ UNCHANGED <<cfgVars, callVars, loopVars, checkVars, sanctionedAddresses, verdict, thrown>>

\* tokenContract.balanceOf(payer) faulted
BalanceOfFault ==
  /\ pc = "balanceOf"
  /\ VerifyReturns(VerifyCatch(FaultMessage("balanceOf", requirements)))
  /\ log' = Append(log, <<"fault", "balanceOf">>)
  /\ UNCHANGED <<cfgVars, callVars, loopVars, checkVars, sanctionedAddresses, verdict, thrown>>

\* the execute of a modifier other than the AMLModifier returned r
CustomExecuteReturn(r) ==
  /\ pc = "execute"
  /\ verdict' = Some(r)
  /\ thrown' = None
  /\ pc' = "verdict"
  /\ log' = Append(log, <<"end", modifiers[idx].name>>)
  /\ UNCHANGED <<cfgVars, callVars, loopVars, checkVars, sanctionedAddresses, response>>

\* the execute of a modifier other than the AMLModifier threw
CustomExecuteThrow ==
  /\ pc = "execute"
  /\ verdict' = None
  /\ thrown' = Some(CustomFault)
  /\ pc' = "verdict"
  /\ log' = log \o << <<"fault", modifiers[idx].name>>, <<"end", modifiers[idx].name>> >>
  /\ UNCHANGED <<cfgVars, callVars, loopVars, checkVars, sanctionedAddresses, response>>

\* verify resumes after `await modifier.execute(modifierContext)`: the body
\* of the loop, then the next modifier or the final return
ModifierResult ==
  /\ pc = "verdict"
  /\ caller = "verify"
  /\ IF thrown # None
     THEN /\ VerifyReturns(VerifyCatch(thrown[1]))
          /\ UNCHANGED <<loopVars, checkVars, sanctionedAddresses, verdict, thrown, log>>
     ELSE LET result == verdict[1]
              amlData == IF result.metadata.aml # None THEN result.metadata.aml ELSE amlCheckData
          IN  IF ~result.allowed
              THEN /\ VerifyReturns(DenialResponse(result, modifiers[idx].name, payer, amlData))
                   /\ amlCheckData' = amlData
                   /\ UNCHANGED <<idx, metadata, checkVars, sanctionedAddresses, verdict, thrown, log>>
              ELSE /\ metadata' = Spread(metadata, result.metadata)
                   /\ EnterLoop(idx + 1, payer, amlData, log)
  /\ UNCHANGED <<cfgVars, callVars>>

\* AMLModifier.execute called by a caller other than verify, with
\* context.payer = p
Execute(p) ==
  /\ pc = "idle"
  /\ HasAML
  /\ caller' = "direct"
  /\ AMLExecuteStart(p, <<>>)
  /\ UNCHANGED <<cfgVars, payload, requirements, payer, balance, loopVars, response>>

\* that caller receives the ModifierResult
ExecuteResult ==
  /\ pc = "verdict"
  /\ caller = "direct"
  /\ pc' = "done"
  /\ UNCHANGED <<cfgVars, callVars, loopVars, checkVars, sanctionedAddresses, response,
                 verdict, thrown, log>>

\* the caller has consumed the result; every local of the call is gone
Return ==
  /\ pc = "done"
  /\ pc' = "idle"
  /\ caller' = "none"
  /\ payload' = NoPayload
  /\ requirements' = NoRequirements
  /\ payer' = Undefined
  /\ balance' = None
  /\ idx' = 0
  /\ metadata' = EmptyMetadata
  /\ amlCheckData' = None
  /\ response' = None
  /\ address' = Undefined
  /\ sanctioned' = FALSE
  /\ isContract' = FALSE
  /\ transactionCount' = 0
  /\ assessment' = None
  /\ caught' = None
  /\ verdict' = None
  /\ thrown' = None
  /\ log' = <<>>
  /\ UNCHANGED <<cfgVars, sanctionedAddresses>>

Next ==
  \/ \E pl \in Payloads, rq \in Requirements : Verify(pl, rq)
  \/ \E b \in 0..MaxBalance : BalanceOfReturn(b)
  \/ BalanceOfFault
  \/ \E r \in CustomResults : CustomExecuteReturn(r)
  \/ CustomExecuteThrow
  \/ ModifierResult
  \/ \E p \in Froms \cup {NotAnAddress} : Execute(p)
  \/ ExecuteResult
  \/ \E oracleSanctioned \in BOOLEAN : IsSanctionedReturn(oracleSanctioned)
  \/ IsSanctionedFault
  \/ \E code \in {"0x", "0x6080"} : GetCodeReturn(code)
  \/ GetCodeFault
  \/ \E n \in TxCounts : GetTransactionCountReturn(n)
  \/ GetTransactionCountFault
  \/ \E wei \in 0..1 : GetBalanceReturn(wei)
  \/ GetBalanceFault
  \/ Return

Spec == Init /\ [][Next]_vars

\* ------------------------------------------- the scoring functions alone
\* Direct applications of calculateRiskScore and getRiskLevel to arguments
\* of the whole of their domain: wallet ages and transaction counts that are
\* independent of each other, and scores that no sum of factors produces.
MaxWalletAge == 8
MaxScore == 100

\* no verify, execute or check is running
NoCall ==
  /\ pc = "idle"
  /\ caller = "none"
  /\ payload = NoPayload
  /\ requirements = NoRequirements
  /\ payer = Undefined
  /\ balance = None
  /\ idx = 0
  /\ metadata = EmptyMetadata
  /\ amlCheckData = None
  /\ response = None
  /\ address = Undefined
  /\ sanctioned = FALSE
  /\ isContract = FALSE
  /\ transactionCount = 0
  /\ assessment = None
  /\ caught = None
  /\ verdict = None
  /\ thrown = None
  /\ log = <<>>

\* the state of the running verify or execute
runVars == <<pc, callVars, loopVars, checkVars, response, verdict, thrown, log>>

facilitatorVars ==
  <<modifiers, config, sanctionedAddresses, runVars, checks, confirmed, seed, settleVars, historyVars>>

\* the onChainData arguments of calculateRiskScore
OnChainData ==
  [walletAge : 0..MaxWalletAge, transactionCount : 0..MaxTxCount,
   isContract : BOOLEAN, riskFactors : {<<>>}]

\* the applications to make: the function, its arguments, and no result yet
Applications ==
  {[fn |-> "calculateRiskScore", sanctioned |-> s, onChainData |-> d,
    riskScore |-> None, riskLevel |-> None] : s \in BOOLEAN, d \in OnChainData}
    \cup {[fn |-> "getRiskLevel", riskScore |-> Some(score), riskLevel |-> None] :
            score \in 0..MaxScore}

ScoreInit ==
  /\ modifiers = <<AMLModifier>>
  /\ config = DefaultAMLConfig
  /\ sanctionedAddresses = {}
  /\ NoCall
  /\ applied \in Applications
  /\ checks = [p \in Payments |-> NoCheck]
  /\ confirmed = {}
  /\ seed = sanctionedAddresses
  /\ NoSettle

\* calculateRiskScore(sanctioned, onChainData), and getRiskLevel of its score
\* as checkAddress applies it
CalculateRiskScore ==
  /\ applied.fn = "calculateRiskScore"
  /\ applied.riskLevel = None
  /\ LET riskScore == calculateRiskScore(applied.sanctioned, applied.onChainData)
     IN  applied' = [applied EXCEPT !.riskScore = Some(riskScore),
                                    !.riskLevel = Some(getRiskLevel(riskScore))]
  /\ UNCHANGED facilitatorVars

\* getRiskLevel(score)
GetRiskLevel ==
  /\ applied.fn = "getRiskLevel"
  /\ applied.riskLevel = None
  /\ applied' = [applied EXCEPT !.riskLevel = Some(getRiskLevel(applied.riskScore[1]))]
  /\ UNCHANGED facilitatorVars

ScoreNext ==
  \/ CalculateRiskScore
  \/ GetRiskLevel

ScoreSpec == ScoreInit /\ [][ScoreNext]_vars

\* ------------------------------------------------ concurrent payments
\* Several payments call checkAddress of one AMLChecker. Each call runs from
\* one await to the next without interruption; between two awaits of one
\* call any step of another call may run.
CheckedAddresses == {AddrA, AddrAChecksum, AddrB, NotAnAddress}

\* the oracle and fallback settings of the AMLChecker
CheckerConfigs ==
  {c \in AMLConfigs : /\ c.enabled
                      /\ c.riskThreshold = DefaultAMLConfig.riskThreshold
                      /\ ~c.requireManualReview}

ConcurrentInit ==
  /\ modifiers = <<AMLModifier>>
  /\ config \in CheckerConfigs
  /\ sanctionedAddresses \in {{}, {AddrB}}
  /\ NoCall
  /\ applied = None
  /\ checks = [p \in Payments |-> NoCheck]
  /\ confirmed = {}
  /\ seed = sanctionedAddresses
  /\ NoSettle

\* what a step of a check leaves alone
quietVars == <<modifiers, config, applied, seed, runVars, settleVars, historyVars>>

\* checkAddress returns its result for payment p
CheckReturns(p, onChainData) ==
  checks' = [checks EXCEPT ![p].pc = "done",
                           ![p].result = Some(AMLCheckResult(checks[p].address,
                                                             checks[p].sanctioned,
                                                             onChainData))]

\* checkAddress(a) called for payment p, up to its first await
CheckAddress(p, a) ==
  /\ checks[p].pc = "idle"
  /\ IF ~IsAddress(a)
     THEN checks' = [checks EXCEPT ![p].pc = "done", ![p].address = a,
                                   ![p].thrown = Some(<<"Invalid Ethereum address:", a>>)]
     ELSE IF oracleContract
     THEN checks' = [checks EXCEPT ![p].pc = "isSanctioned", ![p].address = a]
     ELSE checks' = [checks EXCEPT ![p].pc = "getCode", ![p].address = a,
                                   ![p].sanctioned =
                                     SanctionVerdict(FALSE, ToLowerCase(a) \in sanctionedAddresses)]
  /\ UNCHANGED <<sanctionedAddresses, confirmed, quietVars>>

\* a slip: an oracle hit is not put into the set
CheckIsSanctionedReturnUncached(p, oracleSanctioned) ==
  /\ checks[p].pc = "isSanctioned"
  /\ checks' = [checks EXCEPT ![p].pc = "getCode",
                              ![p].sanctioned =
                                SanctionVerdict(oracleSanctioned,
                                  ToLowerCase(checks[p].address) \in sanctionedAddresses)]
  /\ confirmed' = IF oracleSanctioned THEN confirmed \cup {checks[p].address} ELSE confirmed
  /\ UNCHANGED <<sanctionedAddresses, quietVars>>

\* the oracle answered the call of payment p
CheckIsSanctionedReturn(p, oracleSanctioned) ==
  /\ checks[p].pc = "isSanctioned"
  /\ IF oracleSanctioned
     THEN /\ sanctionedAddresses' = SetAdd(sanctionedAddresses, ToLowerCase(checks[p].address))
          /\ confirmed' = confirmed \cup {checks[p].address}
          /\ checks' = [checks EXCEPT ![p].pc = "getCode", ![p].sanctioned = TRUE]
     ELSE /\ UNCHANGED <<sanctionedAddresses, confirmed>>
          /\ checks' = [checks EXCEPT ![p].pc = "getCode",
                                      ![p].sanctioned =
                                        SanctionVerdict(oracleSanctioned,
                                          ToLowerCase(checks[p].address) \in sanctionedAddresses)]
  /\ UNCHANGED quietVars

\* a slip: after a fault of the oracle the local set is not looked at
CheckIsSanctionedFaultSkipsLocal(p) ==
  /\ checks[p].pc = "isSanctioned"
  /\ IF ~config.fallbackToLocal
     THEN checks' = [checks EXCEPT ![p].pc = "done",
                                   ![p].thrown = Some(<<"oracle call failed">>)]
     ELSE checks' = [checks EXCEPT ![p].pc = "getCode", ![p].sanctioned = FALSE]
  /\ UNCHANGED <<sanctionedAddresses, confirmed, quietVars>>

\* the oracle call of payment p faulted
CheckIsSanctionedFault(p) ==
  /\ checks[p].pc = "isSanctioned"
  /\ IF ~config.fallbackToLocal
     THEN checks' = [checks EXCEPT ![p].pc = "done",
                                   ![p].thrown = Some(<<"oracle call failed">>)]
     ELSE checks' = [checks EXCEPT ![p].pc = "getCode",
                                   ![p].sanctioned =
                                     SanctionVerdict(FALSE,
                                       ToLowerCase(checks[p].address) \in sanctionedAddresses)]
  /\ UNCHANGED <<sanctionedAddresses, confirmed, quietVars>>

\* the code read of payment p answered
CheckGetCodeReturn(p, code) ==
  /\ checks[p].pc = "getCode"
  /\ checks' = [checks EXCEPT ![p].pc = "getTransactionCount", ![p].isContract = (code # "0x")]
  /\ UNCHANGED <<sanctionedAddresses, confirmed, quietVars>>

\* the code read or the transaction-count read of payment p faulted
CheckAnalysisFault(p) ==
  /\ checks[p].pc \in {"getCode", "getTransactionCount"}
  /\ CheckReturns(p, AnalysisFailed)
  /\ UNCHANGED <<sanctionedAddresses, confirmed, quietVars>>

CheckContractFactor(p) == IF checks[p].isContract THEN <<"Contract address">> ELSE <<>>

\* the transaction-count read of payment p answered
CheckGetTransactionCountReturn(p, n) ==
  /\ checks[p].pc = "getTransactionCount"
  /\ IF n > 0
     THEN checks' = [checks EXCEPT ![p].pc = "getBalance", ![p].transactionCount = n]
     ELSE checks' = [checks EXCEPT
            ![p].pc = "done",
            ![p].transactionCount = n,
            ![p].result = Some(AMLCheckResult(checks[p].address, checks[p].sanctioned,
                                 [walletAge |-> 0, transactionCount |-> n,
                                  isContract |-> checks[p].isContract,
                                  riskFactors |-> CheckContractFactor(p) \o <<"No transactions">>]))]
  /\ UNCHANGED <<sanctionedAddresses, confirmed, quietVars>>

\* the balance read of payment p answered
CheckGetBalanceReturn(p, wei) ==
  /\ checks[p].pc = "getBalance"
  /\ CheckReturns(p, [walletAge |-> checks[p].transactionCount \div 10,
                      transactionCount |-> checks[p].transactionCount,
                      isContract |-> checks[p].isContract,
                      riskFactors |-> CheckContractFactor(p)
                                        \o (IF checks[p].transactionCount < 10
                                            THEN <<"New wallet">> ELSE <<>>)
                                        \o (IF wei = 0 THEN <<"Zero balance">> ELSE <<>>)])
  /\ UNCHANGED <<sanctionedAddresses, confirmed, quietVars>>

\* the balance read of payment p faulted
CheckGetBalanceFault(p) ==
  /\ checks[p].pc = "getBalance"
  /\ CheckReturns(p, [walletAge |-> 0,
                      transactionCount |-> checks[p].transactionCount,
                      isContract |-> checks[p].isContract,
                      riskFactors |-> CheckContractFactor(p)])
  /\ UNCHANGED <<sanctionedAddresses, confirmed, quietVars>>

ConcurrentNext ==
  \E p \in Payments :
    \/ \E a \in CheckedAddresses : CheckAddress(p, a)
    \/ \E oracleSanctioned \in BOOLEAN : CheckIsSanctionedReturn(p, oracleSanctioned)
    \/ CheckIsSanctionedFault(p)
    \/ \E code \in {"0x", "0x6080"} : CheckGetCodeReturn(p, code)
    \/ CheckAnalysisFault(p)
    \/ \E n \in {0, 5} : CheckGetTransactionCountReturn(p, n)
    \/ \E wei \in {0} : CheckGetBalanceReturn(p, wei)
    \/ CheckGetBalanceFault(p)

ConcurrentSpec == ConcurrentInit /\ [][ConcurrentNext]_vars

\* ---------------------------------------------- RealFacilitator.settle
\* Error messages are sequences of text fragments; String.includes is
\* membership of the needle among the fragments.
Includes(message, needle) == \E i \in DOMAIN message : message[i] = needle

\* error.message of the faults transferFrom and tx.wait raise
TransferFaults ==
  {<<"execution reverted: ", "ERC20: transfer amount exceeds allowance">>,
   <<"insufficient allowance">>,
   <<"insufficient funds for gas">>,
   <<"network error">>}

MerchantNotConfigured ==
  <<"Merchant account not configured. Set MERCHANT_PRIVATE_KEY environment variable.">>

PayerNotExtracted == <<"Could not extract payer address from payload">>

TransactionFailed == <<"Transaction failed">>

ApprovalHint ==
  "Insufficient token approval. The client must approve the merchant to spend tokens before payment can be settled. Error: "

\* the two shapes of SettleResponse
SettleFailure(network, errorReason) ==
  [success |-> FALSE, transaction |-> None, network |-> network, payer |-> None,
   errorReason |-> Some(errorReason)]

SettleSuccess(network, hash, p) ==
  [success |-> TRUE, transaction |-> Some(hash), network |-> network, payer |-> Some(p),
   errorReason |-> None]

\* a slip: every fault is reported as a missing approval
SettleCatchAlwaysHint(network, error) ==
  SettleFailure(network, <<ApprovalHint>> \o error)

\* the catch of settle
SettleCatch(network, error) ==
  SettleFailure(network,
                IF \/ Includes(error, "insufficient allowance")
                   \/ Includes(error, "ERC20: transfer amount exceeds allowance")
                THEN <<ApprovalHint>> \o error
                ELSE error)

\* settle returns r
SettleReturns(r) ==
  /\ settled' = Some(r)
  /\ pc' = "done"

\* a slip: the merchant account is not looked at
MerchantMissingIgnored(account) == FALSE

\* the first guard of settle
MerchantMissing(account) == ~account

\* a slip: the transfer is for the payer's whole balance of 4 units
TransferArgsAnyAmount(p, rq) == [from |-> p, to |-> rq.payTo, amount |-> 4]

\* the arguments of tokenContract.transferFrom
TransferArgs(p, rq) == [from |-> p, to |-> rq.payTo, amount |-> BigInt(rq.maxAmountRequired)]

\* settle from its first line to the transferFrom call
SettleStart(pl, rq) ==
  /\ caller' = "settle"
  /\ payload' = pl
  /\ requirements' = rq
  /\ tx' = None
  /\ receipt' = None
  /\ IF MerchantMissing(merchantAccount)
     THEN /\ settled' = Some(SettleFailure(rq.network, MerchantNotConfigured))
          /\ pc' = "done"
          /\ log' = <<>>
          /\ UNCHANGED <<payer, transfers, caught>>
     ELSE LET p == IF pl.hasAuthorization THEN pl.from ELSE Undefined
          IN  /\ payer' = p
              /\ IF p = Undefined
                 THEN /\ settled' = Some(SettleFailure(rq.network, PayerNotExtracted))
                      /\ pc' = "done"
                      /\ log' = <<>>
                      /\ UNCHANGED <<transfers, caught>>
                 ELSE IF ~IsNumeric(rq.maxAmountRequired)
                 THEN /\ settled' = Some(SettleCatch(rq.network, FaultMessage("BigInt", rq)))
                      /\ pc' = "done"
                      /\ caught' = Some(FaultMessage("BigInt", rq))
                      /\ log' = << <<"fault", "BigInt">> >>
                      /\ UNCHANGED transfers
                 ELSE /\ transfers' = Append(transfers, TransferArgs(p, rq))
                      /\ pc' = "transferFrom"
                      /\ settled' = None
                      /\ log' = << <<"call", "transferFrom">> >>
                      /\ UNCHANGED caught
  /\ UNCHANGED <<modifiers, config, sanctionedAddresses, balance, loopVars, address,
                 sanctioned, isContract, transactionCount, assessment, response, verdict,
                 thrown, applied, checks, confirmed, seed, merchantAccount, historyVars>>

\* settle called with payload pl and requirements rq
Settle(pl, rq) ==
  /\ pc = "idle"
  /\ SettleStart(pl, rq)
  /\ UNCHANGED verified

\* what the steps of settle after its first leave alone
settleFrame ==
  <<modifiers, config, sanctionedAddresses, callVars, loopVars, address, sanctioned,
    isContract, transactionCount, assessment, response, verdict, thrown, applied, checks,
    confirmed, seed, merchantAccount, transfers, verified, historyVars>>

\* tokenContract.transferFrom answered with the transaction response
TransferFromReturn(hash) ==
  /\ pc = "transferFrom"
  /\ tx' = Some([hash |-> hash])
  /\ pc' = "wait"
  /\ log' = Append(log, <<"call", "wait">>)
  /\ UNCHANGED <<receipt, settled, caught, settleFrame>>

\* tokenContract.transferFrom faulted
TransferFromFault(error) ==
  /\ pc = "transferFrom"
  /\ caught' = Some(error)
  /\ SettleReturns(SettleCatch(requirements.network, error))
  /\ log' = Append(log, <<"fault", "transferFrom">>)
  /\ UNCHANGED <<tx, receipt, settleFrame>>

\* a slip: a receipt counts as success whatever its status
ReceiptSucceededAnyStatus(r) == r # None

\* the test of the receipt
ReceiptSucceeded(r) == r # None /\ r[1].status = 1

\* tx.wait answered with a receipt or with null
WaitReturn(r) ==
  /\ pc = "wait"
  /\ receipt' = r
  /\ SettleReturns(IF ReceiptSucceeded(r)
                   THEN SettleSuccess(requirements.network, tx[1].hash, payer)
                   ELSE SettleFailure(requirements.network, TransactionFailed))
  /\ UNCHANGED <<tx, log, caught, settleFrame>>

\* tx.wait faulted
WaitFault(error) ==
  /\ pc = "wait"
  /\ caught' = Some(error)
  /\ SettleReturns(SettleCatch(requirements.network, error))
  /\ log' = Append(log, <<"fault", "wait">>)
  /\ UNCHANGED <<tx, receipt, settleFrame>>

\* the caller has consumed the SettleResponse; every local of the call is gone
SettleReturn ==
  /\ pc = "done"
  /\ caller = "settle"
  /\ pc' = "idle"
  /\ caller' = "none"
  /\ payload' = NoPayload
  /\ requirements' = NoRequirements
  /\ payer' = Undefined
  /\ balance' = None
  /\ idx' = 0
  /\ metadata' = EmptyMetadata
  /\ amlCheckData' = None
  /\ response' = None
  /\ address' = Undefined
  /\ sanctioned' = FALSE
  /\ isContract' = FALSE
  /\ transactionCount' = 0
  /\ assessment' = None
  /\ caught' = None
  /\ verdict' = None
  /\ thrown' = None
  /\ log' = <<>>
  /\ transfers' = <<>>
  /\ tx' = None
  /\ receipt' = None
  /\ settled' = None
  /\ verified' = {}
  /\ UNCHANGED <<modifiers, config, sanctionedAddresses, applied, checks, confirmed, seed,
                 merchantAccount, historyVars>>

\* the payloads settle is called with: with and without authorization, with
\* every spelling of the payer; settle reads nothing else of the payload
SettlePayloads ==
  {pl \in Payloads :
     /\ pl.extraMessage = NoMessage
     /\ pl.signature \in {NoSignature,
                          [signer |-> "A",
                           message |-> CanonicalMessage(Network, Asset, AddrA, PayTo, "2")]}}

\* the requirements settle is called with: two recipients, two amounts and
\* an amount that is not a number
SettleRequirements ==
  {[network |-> Network, asset |-> Asset, payTo |-> to, maxAmountRequired |-> a] :
     to \in {PayTo, "0xShop"}, a \in {"1", "2", NotANumber}}

\* the hashes of submitted transactions
TxHashes == {"0x1111", "0x2222"}

\* what tx.wait resolves to: null, a receipt of a successful transaction, a
\* receipt of a reverted one
Receipts == {None, Some([status |-> 1]), Some([status |-> 0])}

\* The facilitator after construction, with or without MERCHANT_PRIVATE_KEY.
SettleInit ==
  /\ \E r \in Registrations : modifiers = SortByPriority(r)
  /\ config = DefaultAMLConfig
  /\ sanctionedAddresses \in {{}, {AddrB}}
  /\ seed = sanctionedAddresses
  /\ NoCall
  /\ applied = None
  /\ checks = [p \in Payments |-> NoCheck]
  /\ confirmed = {}
  /\ merchantAccount \in BOOLEAN
  /\ transfers = <<>>
  /\ tx = None
  /\ receipt = None
  /\ settled = None
  /\ verified = {}
  /\ NoHistory

\* Calls of settle, one at a time, with any payload and requirements.
SettleNext ==
  \/ \E pl \in SettlePayloads, rq \in SettleRequirements : Settle(pl, rq)
  \/ \E hash \in TxHashes : TransferFromReturn(hash)
  \/ \E error \in TransferFaults : TransferFromFault(error)
  \/ \E r \in Receipts : WaitReturn(r)
  \/ \E error \in TransferFaults : WaitFault(error)
  \/ SettleReturn

SettleSpec == SettleInit /\ [][SettleNext]_vars

\* ------------------------------------------------- the payment pipeline
\* The caller of the facilitator: a payment enters verify and, on success,
\* is handed to settle with the same authorization and requirements.

\* a slip: the payment is handed on whatever verify answered
HandToSettlementUnchecked ==
  /\ pc = "done"
  /\ caller = "verify"
  /\ verified' = IF response[1].isValid THEN verified \cup {<<payload, requirements>>}
                 ELSE verified
  /\ SettleStart(payload, requirements)

\* verify answered isValid=true: the payment is handed to settle
HandToSettlement ==
  /\ pc = "done"
  /\ caller = "verify"
  /\ response[1].isValid
  /\ verified' = verified \cup {<<payload, requirements>>}
  /\ SettleStart(payload, requirements)

\* verify answered isValid=false: the payment ends here
RejectPayment ==
  /\ pc = "done"
  /\ caller = "verify"
  /\ ~response[1].isValid
  /\ Return

\* The facilitator after construction, with or without MERCHANT_PRIVATE_KEY,
\* under the default compliance policy with either review setting.
PipelineInit ==
  /\ \E r \in Registrations : modifiers = SortByPriority(r)
  /\ config \in {[DefaultAMLConfig EXCEPT !.requireManualReview = b] : b \in BOOLEAN}
  /\ sanctionedAddresses \in {{}, {AddrB}}
  /\ seed = sanctionedAddresses
  /\ NoCall
  /\ applied = None
  /\ checks = [p \in Payments |-> NoCheck]
  /\ confirmed = {}
  /\ merchantAccount \in BOOLEAN
  /\ transfers = <<>>
  /\ tx = None
  /\ receipt = None
  /\ settled = None
  /\ verified = {}
  /\ NoHistory

PipelineNext ==
  \/ \E pl \in Payloads, rq \in Requirements : Verify(pl, rq)
  \/ \E b \in 0..MaxBalance : BalanceOfReturn(b)
  \/ BalanceOfFault
  \/ \E r \in CustomResults : CustomExecuteReturn(r)
  \/ CustomExecuteThrow
  \/ ModifierResult
  \/ \E oracleSanctioned \in BOOLEAN : IsSanctionedReturn(oracleSanctioned)
  \/ IsSanctionedFault
  \/ \E code \in {"0x", "0x6080"} : GetCodeReturn(code)
  \/ GetCodeFault
  \/ \E n \in TxCounts : GetTransactionCountReturn(n)
  \/ GetTransactionCountFault
  \/ \E wei \in 0..1 : GetBalanceReturn(wei)
  \/ GetBalanceFault
  \/ HandToSettlement
  \/ RejectPayment
  \/ \E hash \in TxHashes : TransferFromReturn(hash)
  \/ \E error \in TransferFaults : TransferFromFault(error)
  \/ \E r \in Receipts : WaitReturn(r)
  \/ \E error \in TransferFaults : WaitFault(error)
  \/ SettleReturn

PipelineSpec == PipelineInit /\ [][PipelineNext]_vars

\* ------------------------------------------------------------ properties
\* the modifier runs started in the running call, in order
Starts == SelectSeq(log, LAMBDA e : e[1] = "start")

\* the calls the risk engine makes
RiskEngineCalls == {"isSanctioned", "getCode", "getTransactionCount", "getBalance"}

\* the verdict at hand is the one the AMLModifier returned
AMLReturned ==
  /\ verdict # None
  /\ log # <<>>
  /\ log[Len(log)] = <<"end", AMLName>>

\* the message verify checks the signature against
MessageToVerify ==
  IF payload.extraMessage # NoMessage THEN payload.extraMessage
  ELSE CanonicalMessage(payload.network, requirements.asset, payload.from,
                        requirements.payTo, requirements.maxAmountRequired)

\* the signature of the running verify recovers to the payer
SignerMatchesPayer ==
  /\ payload.hasAuthorization
  /\ payload.from # Undefined
  /\ payload.signature \notin {NoSignature, MalformedSignature}
  /\ ToLowerCase(verifyMessage(MessageToVerify, payload.signature)) = ToLowerCase(payload.from)

\* the balance read of the running verify covers the required amount
BalanceCovers ==
  /\ balance # None
  /\ IsNumeric(requirements.maxAmountRequired)
  /\ balance[1] >= BigInt(requirements.maxAmountRequired)

\* C1: in a run of verify a modifier's execute starts only after the
\* recovered signer matched the payer and the balance read covered
\* maxAmountRequired (the balanceOf call precedes every start); a verify
\* that fails at the signature gate or at the balance gate returns
\* isValid=false without amlCheck, with no modifier started and no risk
\* engine call made.
C1_ModifiersOnlyAfterGates ==
  caller = "verify" =>
    /\ \A i \in DOMAIN log :
         log[i][1] = "start" =>
           /\ SignerMatchesPayer
           /\ BalanceCovers
           /\ \E j \in 1..(i - 1) : log[j] = <<"call", "balanceOf">>
    /\ (response # None /\ ~(SignerMatchesPayer /\ BalanceCovers)) =>
         /\ ~response[1].isValid
         /\ response[1].amlCheck = None
         /\ \A i \in DOMAIN log :
              /\ log[i][1] # "start"
              /\ ~(log[i][1] = "call" /\ log[i][2] \in RiskEngineCalls)

\* a verify with the AMLModifier registered and enabled that stopped at the
\* balance gate
C1_Witness ==
  /\ caller = "verify"
  /\ pc = "done"
  /\ HasAML /\ config.enabled
  /\ SignerMatchesPayer
  /\ balance # None /\ ~BalanceCovers
  /\ response[1].invalidReason = <<"Insufficient balance">>

\* C2: an enabled AMLModifier denies every payer whose assessment is
\* sanctioned, whatever riskThreshold and requireManualReview are.
C2_SanctionedDenied ==
  (AMLReturned /\ assessment # None /\ assessment[1].sanctioned) =>
    ~verdict[1].allowed

\* a sanctioned payer denied under threshold 100 with manual review on
C2_Witness ==
  /\ AMLReturned
  /\ assessment # None /\ assessment[1].sanctioned
  /\ config.riskThreshold = 100 /\ config.requireManualReview
  /\ ~verdict[1].allowed

\* C3: in every assessment returned by checkAddress, score = 100 exactly
\* when sanctioned.
C3_ScoreHundredIffSanctioned ==
  assessment # None =>
    (assessment[1].riskScore = 100 <=> assessment[1].sanctioned)

\* the largest score of a payer that is not sanctioned: a contract without
\* transactions
C3_Witness ==
  /\ assessment # None
  /\ ~assessment[1].sanctioned
  /\ assessment[1].metadata.isContract
  /\ assessment[1].metadata.transactionCount = 0
  /\ assessment[1].riskScore = 90

\* C4: for a payer that is not sanctioned the verdict of the enabled
\* AMLModifier is decided by score, tier, riskThreshold and
\* requireManualReview: allowed without review flag below the threshold;
\* allowed with requiresManualReview=true at or above it when review is on
\* and the tier is HIGH; denied otherwise; and the flag is attached in no
\* other case.
C4_VerdictByPolicy ==
  AMLReturned =>
    /\ (assessment # None /\ ~assessment[1].sanctioned) =>
         LET s == assessment[1].riskScore
             review == config.requireManualReview /\ assessment[1].riskLevel = "HIGH"
         IN  /\ s < config.riskThreshold =>
                  /\ verdict[1].allowed
                  /\ verdict[1].metadata.requiresManualReview = None
             /\ (s >= config.riskThreshold /\ review) =>
                  /\ verdict[1].allowed
                  /\ verdict[1].metadata.requiresManualReview = Some(TRUE)
             /\ (s >= config.riskThreshold /\ ~review) => ~verdict[1].allowed
    /\ verdict[1].metadata.requiresManualReview # None =>
         /\ assessment # None
         /\ ~assessment[1].sanctioned
         /\ assessment[1].riskScore >= config.riskThreshold
         /\ config.requireManualReview
         /\ assessment[1].riskLevel = "HIGH"

\* a score exactly at the threshold, denied
C4_Witness ==
  /\ AMLReturned
  /\ assessment # None /\ ~assessment[1].sanctioned
  /\ assessment[1].riskScore = config.riskThreshold
  /\ ~verdict[1].allowed

PriorityOf(name) == (CHOOSE m \in ModifierPool : m.name = name).priority

\* C5 in every state: the k-th modifier started is the k-th of the sorted
\* list, priorities never decrease from one start to the next, every start
\* but the last is followed by its end before the next start, and once a
\* verdict denies nothing has started after that modifier.
C5_Order ==
  caller = "verify" =>
    /\ \A k \in DOMAIN Starts : k <= Len(modifiers) /\ Starts[k][2] = modifiers[k].name
    /\ \A k \in 1..(Len(Starts) - 1) : PriorityOf(Starts[k][2]) <= PriorityOf(Starts[k + 1][2])
    /\ \A i, j \in DOMAIN log :
         (i < j /\ log[i][1] = "start" /\ log[j][1] = "start") =>
           \E k \in (i + 1)..(j - 1) : log[k] = <<"end", log[i][2]>>
    /\ (response # None /\ verdict # None /\ ~verdict[1].allowed) =>
         /\ Len(Starts) = idx
         /\ log[Len(log)] = <<"end", modifiers[idx].name>>
         /\ \A k \in DOMAIN Starts : PriorityOf(Starts[k][2]) <= modifiers[idx].priority

\* C5 in every step: after a verdict with allowed=false no further modifier
\* is started in that run.
C5_HaltStep ==
  (pc = "verdict" /\ caller = "verify" /\ verdict # None /\ ~verdict[1].allowed) =>
    (pc' = "done" /\ log' = log)

\* C5: verify runs the registered modifiers one at a time in ascending
\* priority order and stops at the first verdict with allowed=false.
C5_AscendingSequentialHalting == [](C5_Order) /\ [][C5_HaltStep]_vars

\* three modifiers registered, the second (the AMLModifier) denies
C5_Witness ==
  /\ caller = "verify"
  /\ pc = "done"
  /\ Len(modifiers) = 3
  /\ Len(Starts) = 2
  /\ verdict # None /\ ~verdict[1].allowed
  /\ ~response[1].isValid

\* C6 as stated: when a modifier's execute throws, verify answers as for a
\* verdict with allowed=false, with a reason that names the faulting
\* modifier and with the payer and the accumulated amlCheck data.
C6_FaultNamesModifier ==
  (caller = "verify" /\ response # None /\ thrown # None) =>
    /\ ~response[1].isValid
    /\ \E k \in DOMAIN response[1].invalidReason :
         response[1].invalidReason[k] = modifiers[idx].name
    /\ response[1].payer = payer
    /\ response[1].amlCheck = amlCheckData

\* C6 amended: when a modifier's execute throws, verify returns
\* isValid=false with the fault's message as invalidReason, without payer
\* and without amlCheck (the data of earlier modifiers is dropped), and no
\* later modifier is started.
C6_FaultGoesToCatch ==
  (caller = "verify" /\ response # None /\ thrown # None) =>
    /\ ~response[1].isValid
    /\ response[1].invalidReason = thrown[1]
    /\ response[1].payer = Undefined
    /\ response[1].amlCheck = None
    /\ Len(Starts) = idx

\* a modifier threw after the AMLModifier had produced its data
C6_Witness ==
  /\ caller = "verify"
  /\ response # None
  /\ thrown # None
  /\ amlCheckData # None
  /\ modifiers[idx].name = "LateModifier"

\* C7: every fault the risk engine raises during an enabled execute is
\* caught in the modifier: execute returns (never throws) a verdict with
\* allowed=false and metadata aml.checked=false.
C7_EngineFaultDenied ==
  /\ caught # None =>
       /\ AMLReturned
       /\ ~verdict[1].allowed
       /\ verdict[1].metadata.aml # None
       /\ ~verdict[1].metadata.aml[1].checked
       /\ verdict[1].metadata.aml[1].error = caught[1]
  /\ (log # <<>> /\ log[Len(log)] = <<"end", AMLName>>) => thrown = None

\* the oracle faulted with the fallback disabled
C7_Witness ==
  /\ caught = Some(<<"oracle call failed">>)
  /\ ~config.fallbackToLocal
  /\ AMLReturned
  /\ ~verdict[1].allowed

FaultOf(call) == \E i \in DOMAIN log : log[i] = <<"fault", call>>

C10_DenialCarriesAssessment ==
  (caller = "verify" /\ response # None /\ assessment # None /\ thrown = None) =>
    /\ response[1].amlCheck # None
    /\ response[1].amlCheck[1] = AmlData(assessment[1])
    /\ ~response[1].isValid =>
         /\ verdict # None /\ ~verdict[1].allowed
         /\ verdict[1].reason # NoReason => response[1].invalidReason = verdict[1].reason
         /\ response[1].payer = payer

\* the AMLModifier rejected a risk score at or above the threshold
C10_Witness ==
  /\ caller = "verify"
  /\ response # None /\ ~response[1].isValid
  /\ assessment # None /\ ~assessment[1].sanctioned
  /\ response[1].invalidReason =
       <<"Risk score too high", assessment[1].riskScore, config.riskThreshold>>
  /\ response[1].amlCheck = Some(AmlData(assessment[1]))

\* the AMLModifier allowed a HIGH-risk payer for manual review in the running
\* verify
FlaggedForReview ==
  /\ caller = "verify"
  /\ config.requireManualReview
  /\ assessment # None /\ assessment[1].riskLevel = "HIGH"
  /\ metadata.requiresManualReview = Some(TRUE)

\* C11: a verify that returns isValid=true after the AMLModifier allowed a
\* HIGH-risk payer under requireManualReview carries requiresManualReview=true
\* in the amlCheck of its response.
C11_ReviewFlagInAmlCheck ==
  (FlaggedForReview /\ response # None /\ response[1].isValid) =>
    /\ response[1].amlCheck # None
    /\ "requiresManualReview" \in DOMAIN response[1].amlCheck[1]
    /\ response[1].amlCheck[1].requiresManualReview = TRUE

TierRank(tier) ==
  CASE tier = "LOW" -> 0 [] tier = "MEDIUM" -> 1 [] tier = "HIGH" -> 2 [] tier = "CRITICAL" -> 3

\* C12: the tier of a score is CRITICAL from 90, HIGH from 70 to 89, MEDIUM
\* from 40 to 69 and LOW below 40; every score has a tier, the tier is fixed
\* by the score alone (whatever produced the score), no lower score has a
\* higher tier, and CRITICAL is never the tier of a score below 90.
C12_TierByBreakpoints ==
  applied.riskLevel # None =>
    LET s == applied.riskScore[1]
        tier == applied.riskLevel[1]
    IN  /\ tier \in {"LOW", "MEDIUM", "HIGH", "CRITICAL"}
        /\ s >= 90 => tier = "CRITICAL"
        /\ (70 <= s /\ s < 90) => tier = "HIGH"
        /\ (40 <= s /\ s < 70) => tier = "MEDIUM"
        /\ s < 40 => tier = "LOW"
        /\ \A lower \in 0..s : TierRank(getRiskLevel(lower)) <= TierRank(tier)
        /\ tier = "CRITICAL" => s >= 90

\* score 90, which getRiskLevel is applied to directly, is CRITICAL
C12_Witness ==
  /\ applied.fn = "getRiskLevel"
  /\ applied.riskScore = Some(90)
  /\ applied.riskLevel = Some("CRITICAL")

\* C13: calculateRiskScore is 100 for a sanctioned address whatever the
\* on-chain data; otherwise min(100, c + t + a) with c = 30 for a contract,
\* t = 40, 25, 10, 0 for a transaction count of 0, 1..9, 10..49, 50 and more,
\* a = 20, 10, 0 for a wallet age of 0, 1..6, 7 and more.
C13_ScoreIsCappedSum ==
  (applied.fn = "calculateRiskScore" /\ applied.riskScore # None) =>
    LET d == applied.onChainData
        c == IF d.isContract THEN 30 ELSE 0
        t == CASE d.transactionCount = 0 -> 40
               [] d.transactionCount \in 1..9 -> 25
               [] d.transactionCount \in 10..49 -> 10
               [] OTHER -> 0
        a == CASE d.walletAge < 1 -> 20
               [] d.walletAge \in 1..6 -> 10
               [] OTHER -> 0
        sum == c + t + a
    IN  applied.riskScore[1] =
          IF applied.sanctioned THEN 100 ELSE IF sum > 100 THEN 100 ELSE sum

\* a contract with ten transactions and wallet age 6: 30 + 10 + 10
C13_Witness ==
  /\ applied.fn = "calculateRiskScore"
  /\ ~applied.sanctioned
  /\ applied.onChainData.isContract
  /\ applied.onChainData.transactionCount = 10
  /\ applied.onChainData.walletAge = 6
  /\ applied.riskScore = Some(50)

\* the check at hand read the code and a transaction count of 0 for an
\* address that is not sanctioned
CheckedUnused(contract) ==
  /\ assessment # None
  /\ ~assessment[1].sanctioned
  /\ ~FaultOf("getCode") /\ ~FaultOf("getTransactionCount")
  /\ assessment[1].metadata.transactionCount = 0
  /\ assessment[1].metadata.isContract = contract

CallOf(call) == \E i \in DOMAIN log : log[i] = <<"call", call>>

\* C16 as stated: the assessment of an address the sanction check found
\* sanctioned is produced without a code read, a transaction-count read or a
\* balance read.
C16_SanctionedSkipsAnalysis ==
  (assessment # None /\ assessment[1].sanctioned) =>
    /\ ~CallOf("getCode")
    /\ ~CallOf("getTransactionCount")
    /\ ~CallOf("getBalance")

\* C16 amended: for a sanctioned address only the score is short-circuited
\* (100, CRITICAL, whatever the analysis finds). The behavioural analysis
\* runs all the same: the code read is issued, after it (unless it failed)
\* the transaction-count read and for a count above 0 the balance read, and
\* the assessment reports what they found after the SANCTIONED flag.
C16_SanctionedStillAnalysed ==
  /\ (pc \in {"getCode", "getTransactionCount", "getBalance"} /\ sanctioned) =>
       CallOf(pc)
  /\ (assessment # None /\ assessment[1].sanctioned) =>
       /\ assessment[1].riskScore = 100
       /\ assessment[1].riskLevel = "CRITICAL"
       /\ assessment[1].flags[1] = "SANCTIONED"
       /\ CallOf("getCode")
       /\ ~FaultOf("getCode") => CallOf("getTransactionCount")
       /\ (~FaultOf("getCode") /\ ~FaultOf("getTransactionCount")) =>
            /\ assessment[1].metadata.isContract = isContract
            /\ assessment[1].metadata.transactionCount = transactionCount
            /\ transactionCount > 0 <=> CallOf("getBalance")
            /\ isContract => assessment[1].flags[2] = "Contract address"

\* a sanctioned contract whose code and transaction count were read
C16_Witness ==
  /\ assessment # None
  /\ assessment[1].sanctioned
  /\ assessment[1].flags = <<"SANCTIONED", "Contract address", "No transactions">>
  /\ CallOf("getCode") /\ CallOf("getTransactionCount")

\* the sanction check of the check at hand has returned its verdict
SanctionChecked ==
  \/ pc \in {"getCode", "getTransactionCount", "getBalance"}
  \/ assessment # None

OracleAnswered(answer) == \E i \in DOMAIN log : log[i] = <<"answer", answer>>

InLocalSet == ToLowerCase(address) \in sanctionedAddresses

\* C17: the verdict of a sanction check whose oracle call succeeded is the
\* oracle's answer OR membership of the lower-cased address in the local
\* set; without an oracle it is that membership alone; an address of the
\* local set is sanctioned although the oracle answers that it is not; and
\* the assessment reports this verdict.
C17_OracleOrLocal ==
  SanctionChecked =>
    /\ OracleAnswered("true") => sanctioned
    /\ OracleAnswered("false") => (sanctioned <=> InLocalSet)
    /\ ~config.useOracle =>
         /\ sanctioned <=> InLocalSet
         /\ ~CallOf("isSanctioned")
    /\ (OracleAnswered("false") /\ InLocalSet) => sanctioned
    /\ assessment # None => assessment[1].sanctioned = sanctioned

\* the oracle cleared an address, spelled with capitals, that an earlier
\* check had put into the local set
C17_Witness ==
  /\ assessment # None
  /\ OracleAnswered("false")
  /\ address = AddrAChecksum
  /\ AddrA \in sanctionedAddresses
  /\ assessment[1].sanctioned

\* C18: after a fault of the oracle call, with fallbackToLocal the check goes
\* on (the code read is issued, an assessment is returned) and its sanction
\* verdict is membership of the lower-cased address in the local set;
\* without fallbackToLocal the fault leaves checkAddress, no read is issued
\* and no assessment is returned.
C18_OracleFaultFallsBackOrPropagates ==
  FaultOf("isSanctioned") =>
    IF config.fallbackToLocal
    THEN /\ caught = None
         /\ CallOf("getCode")
         /\ sanctioned <=> InLocalSet
         /\ pc \in {"verdict", "done"} =>
              /\ assessment # None
              /\ assessment[1].sanctioned <=> InLocalSet
    ELSE /\ caught = Some(<<"oracle call failed">>)
         /\ assessment = None
         /\ pc \in {"verdict", "done"}
         /\ \A call \in RiskEngineCalls \ {"isSanctioned"} : ~CallOf(call)

\* the oracle faulted and the local set sanctioned the address
C18_Witness ==
  /\ FaultOf("isSanctioned")
  /\ config.fallbackToLocal
  /\ assessment # None
  /\ assessment[1].sanctioned
  /\ assessment[1].flags[1] = "SANCTIONED"

\* the spellings without capitals
LowerCased == {AddrA, AddrB, "0xeee"}

\* the step is the return of an oracle call that answered sanctioned
OracleHitStep ==
  /\ pc = "isSanctioned"
  /\ pc' = "getCode"
  /\ \E i \in DOMAIN log' : log'[i] = <<"answer", "true">>

\* C19 in every step: nothing leaves the set; the set changes only in the
\* return of an oracle call that answered sanctioned, and by nothing but the
\* lower-cased address under check; after such a return that address is in
\* the set.
C19_GrowStep ==
  /\ sanctionedAddresses \subseteq sanctionedAddresses'
  /\ sanctionedAddresses' # sanctionedAddresses =>
       /\ OracleHitStep
       /\ sanctionedAddresses' = sanctionedAddresses \cup {ToLowerCase(address)}
  /\ OracleHitStep => ToLowerCase(address) \in sanctionedAddresses'

\* C19: the sanctions set only grows, by the lower-cased address of every
\* oracle hit and by nothing else, and holds lower-cased addresses only; a
\* check without an oracle hit leaves it as it was.
C19_CacheAppendOnly ==
  [](sanctionedAddresses \subseteq LowerCased) /\ [][C19_GrowStep]_vars

\* the set seeded with one address has grown by the address of a payer that
\* was spelled with capitals
C19_Witness ==
  /\ sanctionedAddresses = {AddrA, AddrB}
  /\ address = AddrAChecksum
  /\ OracleAnswered("true")

\* C20 in every step: a step of a check whose lower-cased address is in the
\* set already, a second oracle hit for it included, leaves the set as it is.
C20_DuplicateStep ==
  \A p \in Payments :
    (checks'[p] # checks[p] /\ ToLowerCase(checks[p].address) \in sanctionedAddresses) =>
      sanctionedAddresses' = sanctionedAddresses

\* C20: however the steps of concurrent checks interleave, the sanctions set
\* is the loaded set united with the lower-cased addresses the oracle has
\* confirmed so far, so the final set depends on the confirmed addresses
\* only; a duplicate insert leaves the set unchanged.
C20_CacheIsUnionOfHits ==
  /\ [](sanctionedAddresses = seed \cup {ToLowerCase(a) : a \in confirmed})
  /\ [][C20_DuplicateStep]_vars

\* two concurrent checks of one address in two spellings, both confirmed by
\* the oracle while the other was suspended, have both returned
C20_Witness ==
  /\ \A p \in Payments : checks[p].pc = "done" /\ checks[p].result # None
  /\ confirmed = {AddrA, AddrAChecksum}
  /\ seed = {AddrB}
  /\ sanctionedAddresses = {AddrA, AddrB}

\* the strings that are not addresses: a wrong checksum, a non-hex string
Malformed == {AddrABadCase, NotAnAddress}

\* checkAddress is running, or has run, for a malformed address
MalformedChecked == config.enabled /\ address \in Malformed

\* an entry of the log that belongs to the risk engine's network calls
NetworkEntry(e) ==
  \/ e[1] = "answer"
  \/ e[1] \in {"call", "fault"} /\ e[2] \in RiskEngineCalls

\* C21: checkAddress of a malformed address fails with the invalid-address
\* error before any network call: the error is raised in the step that
\* starts the check, no oracle call and no chain read is made for it, no
\* assessment is produced, and the sanctions cache is left as it was.
C21_MalformedFailsFirst ==
  /\ [](MalformedChecked =>
          /\ caught = Some(<<"Invalid Ethereum address:", address>>)
          /\ assessment = None
          /\ pc \notin RiskEngineCalls
          /\ \A i \in DOMAIN log : ~NetworkEntry(log[i]))
  /\ [][MalformedChecked' => sanctionedAddresses' = sanctionedAddresses]_vars

\* a verify whose payer has a wrong checksum passed both gates and was
\* denied by the compliance check with the invalid-address error
C21_Witness ==
  /\ caller = "verify"
  /\ address = AddrABadCase
  /\ MalformedChecked
  /\ AMLReturned
  /\ ~verdict[1].allowed
  /\ caught = Some(<<"Invalid Ethereum address:", AddrABadCase>>)

\* a chain-state read of the behavioral analysis faulted
ChainReads == {"getCode", "getTransactionCount", "getBalance"}

\* the flags of the assessment without the sanction flag
FactorFlags ==
  IF assessment[1].sanctioned THEN Tail(assessment[1].flags) ELSE assessment[1].flags

\* the assessment reports the zero values flagged "Analysis failed"
ReportsAnalysisFailed ==
  /\ FactorFlags = <<"Analysis failed">>
  /\ assessment[1].metadata.walletAge = 0
  /\ assessment[1].metadata.transactionCount = 0
  /\ ~assessment[1].metadata.isContract

\* C22 as stated: a fault of the code read, of the transaction-count read or
\* of the balance read does not abort the check, and the assessment carries
\* "Analysis failed" with walletAge 0, transactionCount 0, isContract false.
C22_ReadFaultFlagsFailure ==
  (AMLReturned /\ \E call \in ChainReads : FaultOf(call)) =>
    /\ assessment # None
    /\ caught = None
    /\ ReportsAnalysisFailed

\* C22 amended: no fault of a chain-state read aborts the check. A fault of
\* the code read or of the transaction-count read gives the assessment
\* flagged "Analysis failed" with zero-valued fields; a fault of the balance
\* read is absorbed without that flag: the assessment keeps the contract
\* finding and the transaction count already read, estimates walletAge 0,
\* and lists no flag for the wallet or its balance.
C22_ReadFaultDegrades ==
  (AMLReturned /\ \E call \in ChainReads : FaultOf(call)) =>
    /\ assessment # None
    /\ caught = None
    /\ (FaultOf("getCode") \/ FaultOf("getTransactionCount")) => ReportsAnalysisFailed
    /\ FaultOf("getBalance") =>
         /\ FactorFlags = (IF isContract THEN <<"Contract address">> ELSE <<>>)
         /\ assessment[1].metadata.walletAge = 0
         /\ assessment[1].metadata.transactionCount = transactionCount
         /\ transactionCount > 0
         /\ assessment[1].metadata.isContract = isContract

\* the balance read of a contract with 50 transactions faulted
C22_Witness ==
  /\ AMLReturned
  /\ FaultOf("getBalance")
  /\ assessment # None
  /\ assessment[1].metadata.transactionCount = 50
  /\ assessment[1].metadata.isContract
  /\ assessment[1].metadata.walletAge = 0
  /\ assessment[1].flags = <<"Contract address">>

\* the set of flags of the assessment
FlagSet == {assessment[1].flags[i] : i \in DOMAIN assessment[1].flags}

\* the flags that speak of the wallet's history
HistoryFlags == {"No transactions", "New wallet", "Analysis failed"}

\* C23 as stated: each factor that adds points has a flag, and an assessment
\* with score > 0 has a flag. (A history flag is taken to stand for the
\* transaction-count band and for the wallet-age band alike.)
C23_EveryFactorFlagged ==
  assessment # None =>
    /\ assessment[1].sanctioned => "SANCTIONED" \in FlagSet
    /\ ~assessment[1].sanctioned =>
         /\ assessment[1].metadata.isContract => "Contract address" \in FlagSet
         /\ assessment[1].metadata.transactionCount < 50 => FlagSet \cap HistoryFlags # {}
         /\ assessment[1].metadata.walletAge < 7 => FlagSet \cap HistoryFlags # {}
    /\ assessment[1].riskScore > 0 => assessment[1].flags # <<>>

\* C23 amended: the sanctioned status, the contract finding and a
\* transaction count of 0 are always flagged; a count of 1..9 is flagged
\* "New wallet" unless the balance read faulted; the 10..49 band and the
\* wallet-age bands have no flag of their own. An assessment with score > 0
\* therefore has an empty flags list exactly when the address is neither
\* sanctioned nor a contract, has transactions, and either the balance read
\* faulted or the count is 10 or more with a non-zero balance.
C23_FlaggedFactors ==
  assessment # None =>
    /\ assessment[1].sanctioned => assessment[1].flags[1] = "SANCTIONED"
    /\ assessment[1].metadata.isContract => "Contract address" \in FlagSet
    /\ assessment[1].metadata.transactionCount = 0 =>
         FlagSet \cap {"No transactions", "Analysis failed"} # {}
    /\ (assessment[1].metadata.transactionCount \in 1..9 /\ ~FaultOf("getBalance")) =>
         "New wallet" \in FlagSet
    /\ assessment[1].flags = <<>> <=>
         /\ ~assessment[1].sanctioned
         /\ ~assessment[1].metadata.isContract
         /\ assessment[1].metadata.transactionCount > 0
         /\ \/ FaultOf("getBalance")
            \/ /\ assessment[1].metadata.transactionCount >= 10
               /\ "Zero balance" \notin FlagSet
    /\ (assessment[1].flags = <<>> /\ assessment[1].metadata.transactionCount < 50) =>
         assessment[1].riskScore > 0

\* an address with 10 transactions and a balance scores 20 without a flag
C23_Witness ==
  /\ AMLReturned
  /\ assessment # None
  /\ assessment[1].metadata.transactionCount = 10
  /\ ~FaultOf("getBalance")
  /\ assessment[1].riskScore = 20
  /\ assessment[1].flags = <<>>

\* the analysis behind the assessment was not marked "Analysis failed"
AnalysisCompleted == assessment # None /\ "Analysis failed" \notin FlagSet

\* the points of the three factors of the assessment's score
ContractPoints == IF assessment[1].metadata.isContract THEN 30 ELSE 0

CountPoints ==
  IF assessment[1].metadata.transactionCount = 0 THEN 40
  ELSE IF assessment[1].metadata.transactionCount < 10 THEN 25
  ELSE IF assessment[1].metadata.transactionCount < 50 THEN 10 ELSE 0

AgePoints ==
  IF assessment[1].metadata.walletAge < 1 THEN 20
  ELSE IF assessment[1].metadata.walletAge < 7 THEN 10 ELSE 0

\* the age component of the score is the one of the reported wallet age
AgeScored ==
  ~assessment[1].sanctioned =>
    assessment[1].riskScore =
      (IF ContractPoints + CountPoints + AgePoints < MaxScore
       THEN ContractPoints + CountPoints + AgePoints ELSE MaxScore)

\* C24 as stated: in an assessment not marked "Analysis failed" the wallet
\* age is floor(transactionCount / 10) and the score's age component is
\* computed from it.
C24_AgeIsTenthOfCount ==
  AnalysisCompleted =>
    /\ assessment[1].metadata.walletAge = assessment[1].metadata.transactionCount \div 10
    /\ AgeScored

\* C24 amended: in an assessment not marked "Analysis failed" the wallet age
\* is floor(transactionCount / 10) when the balance read answered (or was not
\* needed, the count being 0) and 0 when the balance read faulted; the
\* score's age component is computed from that reported value.
C24_AgeIsTenthUnlessBalanceFault ==
  AnalysisCompleted =>
    /\ assessment[1].metadata.walletAge =
         (IF FaultOf("getBalance") THEN 0
          ELSE assessment[1].metadata.transactionCount \div 10)
    /\ AgeScored

\* 50 transactions and an answered balance read: wallet age 5, 10 points
C24_Witness ==
  /\ AMLReturned
  /\ AnalysisCompleted
  /\ ~FaultOf("getBalance")
  /\ ~assessment[1].sanctioned
  /\ ~assessment[1].metadata.isContract
  /\ assessment[1].metadata.transactionCount = 50
  /\ assessment[1].metadata.walletAge = 5
  /\ assessment[1].riskScore = 10

AuthorizationFrom == IF payload.hasAuthorization THEN payload.from ELSE Undefined

\* no network call of settle was made
NoSettleCall == log = <<>> /\ tx = None /\ receipt = None

\* C26: without a merchant account settle returns success=false with no
\* transfer submitted and no network call made; with one, a payload from
\* which no payer can be extracted makes it return success=false with no
\* transfer submitted.
C26_GuardsFailWithoutTransfer ==
  caller = "settle" =>
    /\ ~merchantAccount =>
         /\ pc = "done"
         /\ settled # None
         /\ ~settled[1].success
         /\ settled[1].errorReason = Some(MerchantNotConfigured)
         /\ settled[1].transaction = None
         /\ transfers = <<>>
         /\ NoSettleCall
    /\ (merchantAccount /\ AuthorizationFrom = Undefined) =>
         /\ pc = "done"
         /\ settled # None
         /\ ~settled[1].success
         /\ settled[1].errorReason = Some(PayerNotExtracted)
         /\ settled[1].transaction = None
         /\ transfers = <<>>
         /\ NoSettleCall

\* a settle of a complete payment failed for want of a merchant account
C26_Witness ==
  /\ caller = "settle"
  /\ ~merchantAccount
  /\ AuthorizationFrom = AddrA
  /\ IsNumeric(requirements.maxAmountRequired)
  /\ settled # None /\ ~settled[1].success
  /\ transfers = <<>>

\* the running settle submitted its transfer and has returned
SettledAfterTransfer == caller = "settle" /\ transfers # <<>> /\ settled # None

\* the transfer returned a transaction and its receipt reports success
ReferenceAndReceipt == tx # None /\ receipt # None /\ receipt[1].status = 1

\* every success carries the transaction reference and the payer
SuccessCarriesReference ==
  settled[1].success =>
    /\ settled[1].transaction = Some(tx[1].hash)
    /\ settled[1].payer = Some(AuthorizationFrom)
    /\ settled[1].errorReason = None

\* C27 as stated: success=true only with a transaction reference and a
\* receipt of successful status; when either is absent the result is
\* success=false with the reason "Transaction failed"; every success carries
\* the transaction reference and the payer.
C27_FailureIsGeneric ==
  SettledAfterTransfer =>
    /\ settled[1].success <=> ReferenceAndReceipt
    /\ ~ReferenceAndReceipt =>
         ~settled[1].success /\ settled[1].errorReason = Some(TransactionFailed)
    /\ SuccessCarriesReference

\* C27 amended: success=true only with a transaction reference and a
\* receipt of successful status, and every success carries the transaction
\* reference and the payer; when tx.wait answered without a successful
\* receipt (null, or another status) the result is success=false with the
\* reason "Transaction failed"; when the reference or the receipt is absent
\* because transferFrom or tx.wait faulted, the result is success=false with
\* the reason the catch derives from the fault's message, which is never
\* "Transaction failed".
C27_SuccessNeedsReceipt ==
  SettledAfterTransfer =>
    /\ settled[1].success <=> ReferenceAndReceipt
    /\ SuccessCarriesReference
    /\ (~ReferenceAndReceipt /\ caught = None) =>
         /\ tx # None
         /\ ~settled[1].success
         /\ settled[1].errorReason = Some(TransactionFailed)
         /\ settled[1].transaction = None
    /\ caught # None =>
         /\ FaultOf("transferFrom") \/ FaultOf("wait")
         /\ ~settled[1].success
         /\ settled[1].errorReason # Some(TransactionFailed)
         /\ \E k \in 1..Len(settled[1].errorReason[1]) :
              SubSeq(settled[1].errorReason[1], k, Len(settled[1].errorReason[1])) = caught[1]

\* a settle succeeded for the checksummed payer
C27_Witness ==
  /\ SettledAfterTransfer
  /\ settled[1].success
  /\ settled[1].transaction = Some("0x2222")
  /\ settled[1].payer = Some(AddrAChecksum)
  /\ receipt = Some([status |-> 1])

\* how many times the running call issued the external call
TimesCalled(call) == Cardinality({i \in DOMAIN log : log[i] = <<"call", call>>})

\* C28: every transfer settle submits moves exactly maxAmountRequired units
\* from the payer of the authorization to payTo, and one call of settle
\* submits at most one transfer and awaits at most one receipt.
C28_OneExactTransfer ==
  caller = "settle" =>
    /\ \A i \in DOMAIN transfers :
         /\ transfers[i].from = AuthorizationFrom
         /\ transfers[i].to = requirements.payTo
         /\ transfers[i].amount = BigInt(requirements.maxAmountRequired)
    /\ Len(transfers) <= 1
    /\ TimesCalled("transferFrom") = Len(transfers)
    /\ TimesCalled("wait") <= 1
    /\ TimesCalled("wait") = (IF tx # None THEN 1 ELSE 0)

\* one unit was moved from the payer to the second recipient and confirmed
C28_Witness ==
  /\ caller = "settle"
  /\ transfers = << [from |-> AddrA, to |-> "0xShop", amount |-> 1] >>
  /\ TimesCalled("wait") = 1
  /\ settled # None /\ settled[1].success

\* the message is one of the known transfer-allowance errors
AllowanceError(message) ==
  \/ Includes(message, "insufficient allowance")
  \/ Includes(message, "ERC20: transfer amount exceeds allowance")

\* C29: settle never propagates a fault: every call ends in a SettleResponse
\* and nothing is thrown; a fault whose message is a known allowance error
\* yields success=false with the approval hint followed by the original
\* message, every other fault success=false with exactly its message.
C29_FaultsBecomeFailures ==
  caller = "settle" =>
    /\ thrown = None
    /\ pc = "done" => settled # None
    /\ caught # None =>
         /\ pc = "done"
         /\ settled # None
         /\ ~settled[1].success
         /\ settled[1].transaction = None
         /\ settled[1].errorReason # None
         /\ IF AllowanceError(caught[1])
            THEN /\ Head(settled[1].errorReason[1]) = ApprovalHint
                 /\ Tail(settled[1].errorReason[1]) = caught[1]
            ELSE settled[1].errorReason[1] = caught[1]

\* the wait for the receipt faulted with a network error, reported as it is
C29_Witness ==
  /\ caller = "settle"
  /\ FaultOf("wait")
  /\ caught = Some(<<"network error">>)
  /\ settled # None
  /\ settled[1].errorReason = Some(<<"network error">>)

\* the external calls of a verify
VerifyCalls == {"balanceOf"} \cup RiskEngineCalls

\* how many times the external call faulted in the running call
TimesFaulted(call) == Cardinality({i \in DOMAIN log : log[i] = <<"fault", call>>})

\* once verify has its response, it is not replaced while the call lasts
C30_TerminalStep == response # None => (response' = response \/ response' = None)

\* C30: within one verify each external call (balanceOf, the oracle query,
\* the code read, the transaction-count read, the balance read) is issued at
\* most once; after a fault of a call that call is not issued again; and a
\* fault that ends the verify ends it in one VerifyResponse, which is not
\* replaced afterwards.
C30_NoRetries ==
  /\ [](caller = "verify" =>
          /\ \A call \in VerifyCalls :
               /\ TimesCalled(call) <= 1
               /\ TimesFaulted(call) <= TimesCalled(call)
               /\ \A i, j \in DOMAIN log :
                    (log[i] = <<"fault", call>> /\ i < j) => log[j] # <<"call", call>>
               /\ (FaultOf(call) /\ pc = "done") => response # None
          /\ FaultOf("balanceOf") => (pc = "done" /\ ~response[1].isValid)
          /\ pc = "done" => response # None)
  /\ [][C30_TerminalStep]_vars

\* a verify whose oracle query and balance read both faulted made each of
\* its five calls once and returned
C30_Witness ==
  /\ caller = "verify"
  /\ pc = "done"
  /\ response # None
  /\ FaultOf("isSanctioned")
  /\ FaultOf("getBalance")
  /\ \A call \in VerifyCalls : TimesCalled(call) = 1

\* C31: under every configured riskThreshold the compliance modifier
\* rejects an assessment of tier CRITICAL, and an assessment of tier HIGH is
\* rejected unless manual review is enabled, in which case it is allowed
\* with requiresManualReview set.
C31_HighTiersNeverPass ==
  (AMLReturned /\ assessment # None) =>
    /\ assessment[1].riskLevel = "CRITICAL" => ~verdict[1].allowed
    /\ assessment[1].riskLevel = "HIGH" =>
         (verdict[1].allowed =>
            /\ config.requireManualReview
            /\ verdict[1].metadata.requiresManualReview = Some(TRUE))

\* the running verify reached its signature gate: payer and signature are
\* present and the signature has a signer
AtSignatureGate ==
  /\ caller = "verify"
  /\ payload.hasAuthorization
  /\ payload.from # Undefined
  /\ payload.signature \notin {NoSignature, MalformedSignature}

\* the address the signature of the running verify recovers to
RecoveredAddress == verifyMessage(MessageToVerify, payload.signature)

\* two addresses spell the same value
SameValue(a, b) ==
  \/ {a, b} \subseteq {AddrA, AddrAChecksum, AddrABadCase}
  \/ {a, b} \subseteq {AddrB, AddrBChecksum}
  \/ a = b

\* C32: the signature gate compares the recovered signer with the claimed
\* payer without regard to letter case: a payer that differs from the
\* signer only in case passes on to the balance read, and a payer of another
\* value gets isValid=false with a reason naming the expected payer and the
\* recovered address, with no balance read and no modifier run.
C32_SignerComparedWithoutCase ==
  AtSignatureGate =>
    IF SameValue(RecoveredAddress, payload.from)
    THEN /\ log # <<>>
         /\ log[1] = <<"call", "balanceOf">>
    ELSE /\ pc = "done"
         /\ log = <<>>
         /\ balance = None
         /\ response =
              Some([isValid |-> FALSE,
                    invalidReason |-> <<"Signature verification failed. Expected",
                                        payload.from, "got", RecoveredAddress>>,
                    payer |-> payload.from,
                    amlCheck |-> None])

\* a payer spelled in lower case, whose signature recovers to the
\* checksummed spelling, was accepted
C32_Witness ==
  /\ AtSignatureGate
  /\ payload.from = AddrA
  /\ RecoveredAddress = AddrAChecksum
  /\ pc = "done"
  /\ response # None /\ response[1].isValid

\* ------------------------------------------- resubmitted authorizations
\* verify called again and again on one facilitator while the chain answers
\* every read the same way. The authorizations carry every field the client
\* builds (part_000 83-99); verify reads from and extra.message only.

\* the authorization of the client for one payer and one signature
Authorization(value, nonce, validAfter, validBefore) ==
  [hasAuthorization |-> TRUE, from |-> AddrA,
   signature |-> [signer |-> "A", message |-> CanonicalMessage(Network, Asset, AddrA, PayTo, "2")],
   extraMessage |-> NoMessage, network |-> Network,
   to |-> PayTo, value |-> value, nonce |-> nonce,
   validAfter |-> validAfter, validBefore |-> validBefore]

\* authorizations that differ in value, nonce, validAfter and validBefore only:
\* the client's, with the required amount as value, and what differs from it
\* in one field
Authorizations ==
  {Authorization(v, "0xn1", 0, 9) : v \in {"1", "2", "4"}}
    \cup {Authorization("2", "0xn2", 0, 9), Authorization("2", "0xn1", 9, 9),
          Authorization("2", "0xn1", 0, 0)}

\* the answers of a chain whose state does not change: None is a fault
Chains ==
  [balanceOf : {None} \cup {Some(b) : b \in 1..MaxBalance},
   isSanctioned : {None, Some(TRUE), Some(FALSE)},
   getCode : {None, Some("0x"), Some("0x6080")},
   getTransactionCount : {None, Some(0), Some(5)},
   getBalance : {None, Some(1)}]

\* a facilitator with the compliance modifier under the default policy
ReplayInit ==
  /\ modifiers = <<AMLModifier>>
  /\ config \in {[DefaultAMLConfig EXCEPT !.requireManualReview = b] : b \in BOOLEAN}
  /\ sanctionedAddresses \in {{}, {AddrA}}
  /\ pc = "idle"
  /\ caller = "none"
  /\ payload = NoPayload
  /\ requirements = NoRequirements
  /\ payer = Undefined
  /\ balance = None
  /\ idx = 0
  /\ metadata = EmptyMetadata
  /\ amlCheckData = None
  /\ response = None
  /\ address = Undefined
  /\ sanctioned = FALSE
  /\ isContract = FALSE
  /\ transactionCount = 0
  /\ assessment = None
  /\ caught = None
  /\ verdict = None
  /\ thrown = None
  /\ log = <<>>
  /\ applied = None
  /\ checks = [p \in Payments |-> NoCheck]
  /\ confirmed = {}
  /\ seed = sanctionedAddresses
  /\ merchantAccount = FALSE
  /\ transfers = <<>>
  /\ tx = None
  /\ receipt = None
  /\ settled = None
  /\ verified = {}
  /\ \E c \in Chains : chain = Some(c)
  /\ first = None
  /\ startCache = sanctionedAddresses

\* verify has returned to its caller, who keeps the first result; the next
\* call finds the facilitator as this one left it
ReplayReturn ==
  /\ pc = "done"
  /\ caller = "verify"
  /\ first' = IF first # None THEN first
              ELSE Some([payload |-> payload, requirements |-> requirements,
                         cache |-> startCache, response |-> response[1]])
  /\ startCache' = sanctionedAddresses
  /\ pc' = "idle"
  /\ caller' = "none"
  /\ payload' = NoPayload
  /\ requirements' = NoRequirements
  /\ payer' = Undefined
  /\ balance' = None
  /\ idx' = 0
  /\ metadata' = EmptyMetadata
  /\ amlCheckData' = None
  /\ response' = None
  /\ address' = Undefined
  /\ sanctioned' = FALSE
  /\ isContract' = FALSE
  /\ transactionCount' = 0
  /\ assessment' = None
  /\ caught' = None
  /\ verdict' = None
  /\ thrown' = None
  /\ log' = <<>>
  /\ UNCHANGED <<modifiers, config, sanctionedAddresses, applied, checks, confirmed, seed,
                 settleVars, chain>>

ReplayNext ==
  \/ \E pl \in Authorizations, rq \in Requirements : Verify(pl, rq)
  \/ \E b \in 1..MaxBalance : chain[1].balanceOf = Some(b) /\ BalanceOfReturn(b)
  \/ chain[1].balanceOf = None /\ BalanceOfFault
  \/ ModifierResult
  \/ \E oracleSanctioned \in BOOLEAN :
       chain[1].isSanctioned = Some(oracleSanctioned) /\ IsSanctionedReturn(oracleSanctioned)
  \/ chain[1].isSanctioned = None /\ IsSanctionedFault
  \/ \E code \in {"0x", "0x6080"} : chain[1].getCode = Some(code) /\ GetCodeReturn(code)
  \/ chain[1].getCode = None /\ GetCodeFault
  \/ \E n \in TxCounts :
       chain[1].getTransactionCount = Some(n) /\ GetTransactionCountReturn(n)
  \/ chain[1].getTransactionCount = None /\ GetTransactionCountFault
  \/ \E wei \in 0..1 : chain[1].getBalance = Some(wei) /\ GetBalanceReturn(wei)
  \/ chain[1].getBalance = None /\ GetBalanceFault
  \/ ReplayReturn

ReplaySpec == ReplayInit /\ [][ReplayNext]_vars

\* the balance read of the running verify was answered and the required
\* amount is a number
BalanceGateReached ==
  /\ caller = "verify"
  /\ balance # None
  /\ IsNumeric(requirements.maxAmountRequired)

\* C33: once the balance read is answered, verify has failed with
\* "Insufficient balance" exactly when the balance is strictly less than
\* requirements.maxAmountRequired; with a balance equal to or above it the
\* modifier loop is entered, whatever value the authorization carries.
C33_BalanceGateIsStrict ==
  BalanceGateReached =>
    IF balance[1] < BigInt(requirements.maxAmountRequired)
    THEN /\ pc = "done"
         /\ idx = 0
         /\ response = Some(VerifyResponse(FALSE, <<"Insufficient balance">>, payer, None))
    ELSE /\ idx >= 1
         /\ response # None => response[1].invalidReason # <<"Insufficient balance">>

\* a balance equal to the required amount passes under an authorization whose
\* value is above both
C33_Witness ==
  /\ BalanceGateReached
  /\ balance[1] = BigInt(requirements.maxAmountRequired)
  /\ payload.value = "4"
  /\ pc = "done"
  /\ response[1].isValid

\* ------------------------------------------- calls whose awaits are answered
\* verify and settle called one at a time on one facilitator, each awaited
\* external call being answered sooner or later by a value or by a fault, and
\* the runtime resuming the method after each answer.

\* a slip: a fault of the balance read leaves verify without a result
BalanceOfAnswerFaultEscapes ==
  \/ \E b \in 0..MaxBalance : BalanceOfReturn(b)
  \/ /\ pc = "balanceOf"
     /\ pc' = "thrown"
     /\ log' = Append(log, <<"fault", "balanceOf">>)
     /\ UNCHANGED <<cfgVars, callVars, loopVars, checkVars, sanctionedAddresses, verdict,
                    thrown, response>>

\* await tokenContract.balanceOf(payer) is answered
BalanceOfAnswer ==
  \/ \E b \in 0..MaxBalance : BalanceOfReturn(b)
  \/ BalanceOfFault

\* await modifier.execute(modifierContext) of a custom modifier is answered
CustomExecuteAnswer ==
  \/ \E r \in CustomResults : CustomExecuteReturn(r)
  \/ CustomExecuteThrow

\* await this.oracleContract.isSanctioned(address) is answered
IsSanctionedAnswer ==
  \/ \E oracleSanctioned \in BOOLEAN : IsSanctionedReturn(oracleSanctioned)
  \/ IsSanctionedFault

\* await this.provider.getCode(address) is answered
GetCodeAnswer ==
  \/ \E code \in {"0x", "0x6080"} : GetCodeReturn(code)
  \/ GetCodeFault

\* await this.provider.getTransactionCount(address) is answered
GetTransactionCountAnswer ==
  \/ \E n \in TxCounts : GetTransactionCountReturn(n)
  \/ GetTransactionCountFault

\* await this.provider.getBalance(address) is answered
GetBalanceAnswer ==
  \/ \E wei \in 0..1 : GetBalanceReturn(wei)
  \/ GetBalanceFault

\* await tokenContract.transferFrom(...) is answered
TransferFromAnswer ==
  \/ \E hash \in TxHashes : TransferFromReturn(hash)
  \/ \E error \in TransferFaults : TransferFromFault(error)

\* await tx.wait() is answered
WaitAnswer ==
  \/ \E r \in Receipts : WaitReturn(r)
  \/ \E error \in TransferFaults : WaitFault(error)

\* the caller of verify has consumed its result
VerifyConsumed ==
  /\ caller = "verify"
  /\ Return

LiveNext ==
  \/ \E pl \in SettlePayloads, rq \in Requirements : Verify(pl, rq)
  \/ BalanceOfAnswer
  \/ CustomExecuteAnswer
  \/ ModifierResult
  \/ IsSanctionedAnswer
  \/ GetCodeAnswer
  \/ GetTransactionCountAnswer
  \/ GetBalanceAnswer
  \/ VerifyConsumed
  \/ \E pl \in SettlePayloads, rq \in Requirements : Settle(pl, rq)
  \/ TransferFromAnswer
  \/ WaitAnswer
  \/ SettleReturn

\* every awaited call is answered and the method is resumed; nothing obliges
\* a caller to call verify or settle, or to consume a result
LiveFairness ==
  /\ WF_vars(BalanceOfAnswer)
  /\ WF_vars(CustomExecuteAnswer)
  /\ WF_vars(ModifierResult)
  /\ WF_vars(IsSanctionedAnswer)
  /\ WF_vars(GetCodeAnswer)
  /\ WF_vars(GetTransactionCountAnswer)
  /\ WF_vars(GetBalanceAnswer)
  /\ WF_vars(TransferFromAnswer)
  /\ WF_vars(WaitAnswer)

LiveSpec == SettleInit /\ [][LiveNext]_vars /\ LiveFairness

\* the positions at which a run waits for an external call
WaitingPositions ==
  {"balanceOf", "execute", "isSanctioned", "getCode", "getTransactionCount", "getBalance",
   "transferFrom", "wait"}

\* the step is the answer to the call the run waits for
AnswerOfPendingCall ==
  \/ pc = "balanceOf" /\ BalanceOfAnswer
  \/ pc = "execute" /\ CustomExecuteAnswer
  \/ pc = "isSanctioned" /\ IsSanctionedAnswer
  \/ pc = "getCode" /\ GetCodeAnswer
  \/ pc = "getTransactionCount" /\ GetTransactionCountAnswer
  \/ pc = "getBalance" /\ GetBalanceAnswer
  \/ pc = "transferFrom" /\ TransferFromAnswer
  \/ pc = "wait" /\ WaitAnswer

\* C34: when every awaited call is answered, every call of verify leads to a
\* returned VerifyResponse and every call of settle to a returned
\* SettleResponse; and a run that waits for a call moves on by the answer to
\* that call only, so that it stays where it is while the answer is missing.
C34_CallsReturnWhenAnswered ==
  /\ (caller = "verify") ~> (caller = "verify" /\ pc = "done" /\ response # None)
  /\ (caller = "settle") ~> (caller = "settle" /\ pc = "done" /\ settled # None)
  /\ [][(pc \in WaitingPositions) => AnswerOfPendingCall]_vars

\* settle has returned success after both of its awaited calls were answered
C34_Witness ==
  /\ caller = "settle"
  /\ pc = "done"
  /\ tx # None
  /\ receipt # None
  /\ settled # None /\ settled[1].success

\* verify has returned isValid=true on a facilitator whose compliance
\* modifier is registered and enabled
AcceptedUnderCompliance ==
  /\ caller = "verify"
  /\ pc = "done"
  /\ response # None /\ response[1].isValid
  /\ HasAML
  /\ config.enabled

\* C35: when verify returns isValid=true with the compliance modifier
\* registered and enabled, an assessment of the payer was completed in that
\* run, it reports sanctioned=false, and its score is below riskThreshold or
\* its tier is HIGH under requireManualReview; and the payer is not in the
\* sanctions cache.
C35_AcceptedPayerWasCleared ==
  AcceptedUnderCompliance =>
    /\ \E i \in DOMAIN log : log[i] = <<"start", AMLName>>
    /\ assessment # None
    /\ assessment[1].address = payer
    /\ ~assessment[1].sanctioned
    /\ \/ assessment[1].riskScore < config.riskThreshold
       \/ assessment[1].riskLevel = "HIGH" /\ config.requireManualReview
    /\ ToLowerCase(payer) \notin sanctionedAddresses

\* a payer at or above the threshold accepted for manual review, while the
\* cache holds another address
C35_Witness ==
  /\ AcceptedUnderCompliance
  /\ assessment # None
  /\ assessment[1].riskScore >= config.riskThreshold
  /\ assessment[1].riskLevel = "HIGH"
  /\ sanctionedAddresses # {}

\* verify has returned isValid=true
Accepted ==
  /\ caller = "verify"
  /\ pc = "done"
  /\ response # None /\ response[1].isValid

\* the canonical message of the running verify
CanonicalOfRun ==
  CanonicalMessage(payload.network, requirements.asset, payer, requirements.payTo,
                   requirements.maxAmountRequired)

\* the signature of the running verify is one by the payer's key
SignedByPayer ==
  /\ payload.signature \notin {NoSignature, MalformedSignature}
  /\ SameValue(KeyAddress(payload.signature.signer), payer)

\* C36 as claimed: whenever verify returns isValid=true, the signature is one
\* by the payer over the canonical message of network, asset, payer, payTo
\* and maxAmountRequired, also when the authorization carries a message.
C36_SignatureBindsPayment ==
  Accepted => (SignedByPayer /\ payload.signature.message = CanonicalOfRun)

\* C36 amended: whenever verify returns isValid=true, the signature is one by
\* the payer over the message verify selected: the message carried by the
\* authorization when it carries one, the canonical message otherwise.
C36_SignatureOverSelectedMessage ==
  Accepted =>
    /\ SignedByPayer
    /\ payload.signature.message =
         (IF payload.extraMessage # NoMessage THEN payload.extraMessage ELSE CanonicalOfRun)

\* an authorization carrying its own message, signed by the payer, accepted
C36_Witness ==
  /\ Accepted
  /\ payload.extraMessage = CustomMessage
  /\ payload.signature.message = CustomMessage
  /\ payload.signature.message # CanonicalOfRun

\* two authorizations that differ in nonce, validAfter and validBefore at most
SameButNonceAndWindow(a, b) ==
  [a EXCEPT !.nonce = b.nonce, !.validAfter = b.validAfter, !.validBefore = b.validBefore] = b

\* verify has returned after the first verify of the facilitator was recorded
ReturnedAfterFirst ==
  /\ caller = "verify"
  /\ pc = "done"
  /\ response # None
  /\ first # None
  /\ requirements = first[1].requirements

\* C37: while the chain answers every read the same way, a verify of an
\* authorization that differs from the first one in nonce, validAfter and
\* validBefore at most, called with the same requirements and the same
\* sanctions cache, returns what the first verify returned; and the first
\* authorization, once accepted, is accepted again when it is submitted again.
C37_NoRecordOfAuthorizations ==
  ReturnedAfterFirst =>
    /\ (SameButNonceAndWindow(payload, first[1].payload) /\ startCache = first[1].cache)
         => response[1] = first[1].response
    /\ (payload = first[1].payload /\ first[1].response.isValid) => response[1].isValid

\* an accepted authorization accepted again under another nonce and a
\* validBefore that has passed
C37_Witness ==
  /\ ReturnedAfterFirst
  /\ first[1].response.isValid
  /\ response[1].isValid
  /\ payload.nonce # first[1].payload.nonce
  /\ payload.validBefore = 0
  /\ first[1].payload.validBefore # 0
  /\ SameButNonceAndWindow(payload, first[1].payload)

\* what a step in which verify runs does to the facilitator and to funds:
\* nothing but the addition of an oracle-confirmed address to the sanctions set
VerifyStepFrame ==
  /\ UNCHANGED <<modifiers, config, merchantAccount, transfers, tx, receipt, settled>>
  /\ sanctionedAddresses \subseteq sanctionedAddresses'
  /\ sanctionedAddresses' # sanctionedAddresses =>
       /\ pc = "isSanctioned"
       /\ \E i \in DOMAIN log' : log'[i] = <<"answer", "true">>
       /\ sanctionedAddresses' = sanctionedAddresses \cup {ToLowerCase(payer)}

\* the context of the running verify holds nothing of an earlier payment
FreshContext ==
  /\ transfers = <<>>
  /\ idx = 0 => (metadata = EmptyMetadata /\ amlCheckData = None)
  /\ metadata.aml # None /\ "address" \in DOMAIN metadata.aml[1]
       => metadata.aml[1].address = payer
  /\ (response # None /\ response[1].amlCheck # None
        /\ "address" \in DOMAIN response[1].amlCheck[1])
       => response[1].amlCheck[1].address = payer

\* C38: a step in which verify runs submits no transfer and changes nothing
\* of the facilitator but the sanctions set, which it changes only by adding
\* the address the oracle has just confirmed; before its modifier loop the
\* run's metadata is empty, and the assessment in its metadata and in its
\* result is the one of its own payer.
C38_VerifyIsReadOnly ==
  /\ [][caller' = "verify" => VerifyStepFrame]_vars
  /\ [](caller = "verify" => FreshContext)

\* a verify has added its payer to the sanctions set and returned that
\* payer's assessment
C38_Witness ==
  /\ caller = "verify"
  /\ pc = "done"
  /\ sanctionedAddresses # seed
  /\ response # None /\ response[1].amlCheck # None
  /\ response[1].amlCheck[1].address = payer

\* the oracle has answered sanctioned for the address of payment p, in some
\* spelling
ConfirmedBefore(p) ==
  \E c \in confirmed : ToLowerCase(c) = ToLowerCase(checks[p].address)

\* the step ends the sanction check of payment p
SanctionCheckEnds(p) ==
  /\ checks[p].pc = "isSanctioned"
  /\ checks'[p].pc # "isSanctioned"

\* C39 in every step: a sanction check that ends after the oracle confirmed
\* its address ends with the verdict sanctioned, or with the oracle's fault
\* thrown when fallbackToLocal is off.
C39_ConfirmedStaysSanctionedStep ==
  \A p \in Payments :
    (SanctionCheckEnds(p) /\ ConfirmedBefore(p)) =>
      \/ checks'[p].pc = "getCode" /\ checks'[p].sanctioned
      \/ /\ ~config.fallbackToLocal
         /\ checks'[p].pc = "done"
         /\ checks'[p].thrown # None
         /\ checks'[p].result = None

\* C39: once the oracle has answered sanctioned for an address, every
\* sanction check of that address that ends afterwards on the same AMLChecker
\* gives sanctioned, whatever the oracle answers then, or throws the oracle's
\* fault when fallbackToLocal is off; and an assessment reports the verdict
\* of its sanction check.
C39_ConfirmedStaysSanctioned ==
  /\ [][C39_ConfirmedStaysSanctionedStep]_vars
  /\ [](\A p \in Payments :
          checks[p].result # None => checks[p].result[1].sanctioned = checks[p].sanctioned)

\* two checks of one address in two spellings, the oracle having answered
\* sanctioned for the first spelling only: both assessments are sanctioned
C39_Witness ==
  /\ seed = {}
  /\ confirmed = {AddrAChecksum}
  /\ checks[1].address = AddrAChecksum
  /\ checks[1].result # None /\ checks[1].result[1].sanctioned
  /\ checks[2].address = AddrA
  /\ checks[2].result # None /\ checks[2].result[1].sanctioned

====
